---- MODULE Spec2Model ----
(***************************************************************************)
(* A model of the membership-cache subsystem of chrome-bookmarks-check:    *)
(* the Bloom filter (src/src/utils/bloom-filter.ts), the URL normaliser    *)
(* and the bookmark cache manager (BookmarkCacheService, first class of    *)
(* src/unnamed/part_001) and the storage adapter (StorageService,          *)
(* src/unnamed/part_002).                                                  *)
(***************************************************************************)
EXTENDS Integers, Sequences, FiniteSets, TLC

(***************************************************************************)
(* 32-bit machine words.  A word is <<b0, b1, b2, b3>>, little endian      *)
(* bytes, so that no intermediate value leaves TLC's integer range.        *)
(***************************************************************************)
RECURSIVE Pow2(_)
Pow2(n) == IF n = 0 THEN 1 ELSE 2 * Pow2(n - 1)

RECURSIVE BitXor(_, _, _)
BitXor(a, b, n) ==
  IF n = 0 THEN 0
  ELSE (((a % 2) + (b % 2)) % 2) + 2 * BitXor(a \div 2, b \div 2, n - 1)

\* the word of a number 0 <= n < 2^31
ToWord(n) == <<n % 256, (n \div 256) % 256, (n \div 65536) % 256, (n \div 16777216) % 256>>

WXor(a, b) == <<BitXor(a[1], b[1], 8), BitXor(a[2], b[2], 8),
                BitXor(a[3], b[3], 8), BitXor(a[4], b[4], 8)>>

\* a + b modulo 2^32
WAdd(a, b) ==
  LET t1 == a[1] + b[1]
      t2 == a[2] + b[2] + (t1 \div 256)
      t3 == a[3] + b[3] + (t2 \div 256)
      t4 == a[4] + b[4] + (t3 \div 256)
  IN  <<t1 % 256, t2 % 256, t3 % 256, t4 % 256>>

\* -a modulo 2^32 (two's complement)
WNeg(a) == WAdd(<<255 - a[1], 255 - a[2], 255 - a[3], 255 - a[4]>>, <<1, 0, 0, 0>>)

WSub(a, b) == WAdd(a, WNeg(b))

\* Math.imul: the low 32 bits of a * b
imul(a, b) ==
  LET c1 == a[1] * b[1]
      c2 == a[1] * b[2] + a[2] * b[1]
      c3 == a[1] * b[3] + a[2] * b[2] + a[3] * b[1]
      c4 == a[1] * b[4] + a[2] * b[3] + a[3] * b[2] + a[4] * b[1]
      t2 == c2 + (c1 \div 256)
      t3 == c3 + (t2 \div 256)
      t4 == c4 + (t3 \div 256)
  IN  <<c1 % 256, t2 % 256, t3 % 256, t4 % 256>>

Lo16(w) == w[1] + 256 * w[2]
Hi16(w) == w[3] + 256 * w[4]
FromHL(hi, lo) == <<lo % 256, lo \div 256, hi % 256, hi \div 256>>

\* x << r, for 0 < r < 16
Shl(w, r) ==
  FromHL(((Hi16(w) * Pow2(r)) % 65536) + (Lo16(w) \div Pow2(16 - r)),
         (Lo16(w) * Pow2(r)) % 65536)

\* x >>> r, for 0 < r <= 16
Shr(w, r) ==
  FromHL(Hi16(w) \div Pow2(r),
         (Lo16(w) \div Pow2(r)) + (Hi16(w) % Pow2(r)) * Pow2(16 - r))

\* (x << r) | (x >>> (32 - r)), for 0 < r < 16
Rotl(w, r) ==
  FromHL(((Hi16(w) * Pow2(r)) % 65536) + (Lo16(w) \div Pow2(16 - r)),
         ((Lo16(w) * Pow2(r)) % 65536) + (Hi16(w) \div Pow2(16 - r)))

\* Math.abs(x) % m for the int32 x held in w; exact for 0 < m < 2^22
AbsMod(w, m) ==
  LET a  == IF w[4] >= 128 THEN WNeg(w) ELSE w
      r4 == a[4] % m
      r3 == (r4 * 256 + a[3]) % m
      r2 == (r3 * 256 + a[2]) % m
  IN  (r2 * 256 + a[1]) % m

(***************************************************************************)
(* Strings are TLA+ strings; charCodeAt is the position in the printable   *)
(* ASCII table (codes 32..95 and 97..126; the grave accent, code 96,      *)
(* cannot be written in a TLA+ string and is not in the alphabet).         *)
(***************************************************************************)
AsciiLow == " !\"#$%&'()*+,-./0123456789:;<=>?@ABCDEFGHIJKLMNOPQRSTUVWXYZ[\\]^_"
AsciiHigh == "abcdefghijklmnopqrstuvwxyz{|}~"

CharAt(s, i) == SubSeq(s, i, i)

charCode(c) ==
  IF \E n \in 1..Len(AsciiLow) : CharAt(AsciiLow, n) = c
  THEN 31 + (CHOOSE n \in 1..Len(AsciiLow) : CharAt(AsciiLow, n) = c)
  ELSE 96 + (CHOOSE n \in 1..Len(AsciiHigh) : CharAt(AsciiHigh, n) = c)

charCodeAt(s, i) == charCode(CharAt(s, i))

(***************************************************************************)
(* URL normalisation (BookmarkCacheService.normalizeUrl).                  *)
(*                                                                         *)
(* new URL(s) is modelled for the strings                                  *)
(*     scheme "://" host [":" port] [path] ["?" query] ["#" fragment]      *)
(* with scheme http or https in any letter case, host made of letters,     *)
(* digits, "-" and "." and ending in a letter, port a decimal number up    *)
(* to 65535, and path, query and fragment made of letters, digits and      *)
(* "-._~/=&" with no "." or ".." path segment.  For these the parser       *)
(* lower-cases scheme and host, drops a default port, and gives an empty   *)
(* path the value "/".  A string with no ":" does not parse.               *)
(***************************************************************************)
Letters == "abcdefghijklmnopqrstuvwxyzABCDEFGHIJKLMNOPQRSTUVWXYZ"
Digits == "0123456789"

Has(table, c) == \E n \in 1..Len(table) : CharAt(table, n) = c

AllIn(s, table) == \A i \in 1..Len(s) : Has(table, CharAt(s, i))

lowerChar(c) ==
  IF \E n \in 27..52 : CharAt(Letters, n) = c
  THEN CharAt(Letters, (CHOOSE n \in 27..52 : CharAt(Letters, n) = c) - 26)
  ELSE c

RECURSIVE toLowerCase(_)
toLowerCase(s) ==
  IF Len(s) = 0 THEN "" ELSE lowerChar(CharAt(s, 1)) \o toLowerCase(SubSeq(s, 2, Len(s)))

\* the least index i >= from with s[i] in the characters of table, or Len(s) + 1
RECURSIVE FindAny(_, _, _)
FindAny(s, table, from) ==
  IF from > Len(s) THEN Len(s) + 1
  ELSE IF Has(table, CharAt(s, from)) THEN from ELSE FindAny(s, table, from + 1)

startsWith(s, prefix) == Len(s) >= Len(prefix) /\ SubSeq(s, 1, Len(prefix)) = prefix
endsWith(s, suffix) == Len(s) >= Len(suffix) /\ SubSeq(s, Len(s) - Len(suffix) + 1, Len(s)) = suffix
includes(s, part) == \E i \in 1..(Len(s) - Len(part) + 1) : SubSeq(s, i, i + Len(part) - 1) = part

\* s.replace(/\/+$/, '')
RECURSIVE stripTrailingSlashes(_)
stripTrailingSlashes(s) ==
  IF endsWith(s, "/") THEN stripTrailingSlashes(SubSeq(s, 1, Len(s) - 1)) ELSE s

RECURSIVE parseInt(_)
parseInt(s) ==
  IF Len(s) = 0 THEN 0
  ELSE LET d == (CHOOSE n \in 1..10 : CharAt(Digits, n) = CharAt(s, Len(s))) - 1
           r == parseInt(SubSeq(s, 1, Len(s) - 1))
       IN  IF r > 65535 THEN r ELSE (10 * r) + d

RECURSIVE toString(_)
toString(n) ==
  IF n < 10 THEN CharAt(Digits, n + 1)
  ELSE toString(n \div 10) \o CharAt(Digits, (n % 10) + 1)

defaultPort(protocol) == IF protocol = "http:" THEN 80 ELSE 443

NoUrl == [ok |-> FALSE]

\* the URL object of the parts of the string, or NoUrl when the constructor throws.
\* port is -1 for none; hasSearch / hasHash tell a null query or fragment from an
\* empty one
urlOfParts(scheme, slashes, host, portStr, path, hasSearch, query, hasHash, fragment) ==
  LET portNum   == IF Len(portStr) = 0 THEN -1 ELSE parseInt(portStr)
      bodyChars == Letters \o Digits \o "-._~/=&"
  IN  IF /\ scheme \in {"http", "https"}
         /\ slashes = "//"
         /\ Len(host) > 0
         /\ AllIn(host, Letters \o Digits \o "-.")
         /\ Has(Letters, CharAt(host, Len(host)))
         /\ AllIn(portStr, Digits)
         /\ portNum <= 65535
         /\ AllIn(path, bodyChars)
         /\ ~ includes(path \o "/", "/./") /\ ~ includes(path \o "/", "/../")
         /\ AllIn(query, bodyChars)
         /\ AllIn(fragment, bodyChars)
      THEN [ok        |-> TRUE,
            protocol  |-> scheme \o ":",
            hostname  |-> toLowerCase(host),
            port      |-> IF portNum = defaultPort(scheme \o ":") THEN -1 ELSE portNum,
            pathname  |-> IF Len(path) = 0 THEN "/" ELSE path,
            hasSearch |-> hasSearch,
            search    |-> IF hasSearch THEN query ELSE "",
            hasHash   |-> hasHash,
            hash      |-> fragment]
      ELSE NoUrl

\* the authority "host[:port]" split at portAt
urlOfAuthority(scheme, slashes, auth, portAt, path, hasSearch, query, hasHash, fragment) ==
  urlOfParts(scheme, slashes, SubSeq(auth, 1, portAt - 1), SubSeq(auth, portAt + 1, Len(auth)),
             path, hasSearch, query, hasHash, fragment)

\* s split at its first ":", at the end of its authority, of its path and of its query
urlOfSplit(s, colon, authEnd, pathEnd, hashAt) ==
  urlOfAuthority(toLowerCase(SubSeq(s, 1, colon - 1)),
                 SubSeq(s, colon + 1, colon + 2),
                 SubSeq(s, colon + 3, authEnd - 1),
                 FindAny(SubSeq(s, colon + 3, authEnd - 1), ":", 1),
                 SubSeq(s, authEnd, pathEnd - 1),
                 pathEnd <= Len(s) /\ CharAt(s, pathEnd) = "?",
                 SubSeq(s, pathEnd + 1, hashAt - 1),
                 hashAt <= Len(s),
                 SubSeq(s, hashAt + 1, Len(s)))

urlFromPath(s, colon, authEnd, pathEnd) ==
  urlOfSplit(s, colon, authEnd, pathEnd, FindAny(s, "#", pathEnd))

urlFromAuthority(s, colon, authEnd) ==
  urlFromPath(s, colon, authEnd, FindAny(s, "?#", authEnd))

urlFromScheme(s, colon) == urlFromAuthority(s, colon, FindAny(s, "/?#", colon + 3))

\* new URL(s)
parseUrl(s) == urlFromScheme(s, FindAny(s, ":", 1))

\* urlObj.toString()
href(u) ==
  u.protocol \o "//" \o u.hostname
  \o (IF u.port >= 0 THEN ":" \o toString(u.port) ELSE "")
  \o u.pathname
  \o (IF u.hasSearch THEN "?" \o u.search ELSE "")
  \o (IF u.hasHash THEN "#" \o u.hash ELSE "")

\* urlObj.protocol = 'https:' (the setter drops a port that is the new default)
setProtocolHttps(u) ==
  [u EXCEPT !.protocol = "https:", !.port = IF @ = 443 THEN -1 ELSE @]

\* the index of the last "/" of s, 0 if none
RECURSIVE lastSlash(_, _)
lastSlash(s, i) == IF i = 0 \/ CharAt(s, i) = "/" THEN i ELSE lastSlash(s, i - 1)

\* /\/t\/topic\/(\d+)\/(\d+)\/?$/.test(path) and path.replace(/\/(\d+)\/?$/, '')
dropPostNumber(path) ==
  LET p  == IF endsWith(path, "/") THEN SubSeq(path, 1, Len(path) - 1) ELSE path
      s2 == lastSlash(p, Len(p))
      n2 == SubSeq(p, s2 + 1, Len(p))
      q  == SubSeq(p, 1, s2 - 1)
      s1 == lastSlash(q, Len(q))
      n1 == SubSeq(q, s1 + 1, Len(q))
  IN  IF /\ s2 > 0 /\ Len(n2) > 0 /\ AllIn(n2, Digits)
         /\ s1 > 0 /\ Len(n1) > 0 /\ AllIn(n1, Digits)
         /\ endsWith(SubSeq(q, 1, s1), "/t/topic/")
      THEN q
      ELSE path

\* urlObj.pathname = p (an empty path of an http(s) URL reads back as "/")
setPathname(u, p) == [u EXCEPT !.pathname = IF Len(p) = 0 THEN "/" ELSE p]

\* urlObj.hostname = h (an empty host is refused for http(s))
setHostname(u, h) == IF Len(h) = 0 THEN u ELSE [u EXCEPT !.hostname = h]

NoSettings ==
  [ignoreProtocol |-> FALSE, ignoreTrailingSlash |-> FALSE, ignoreCase |-> FALSE,
   ignoreWww |-> FALSE, ignoreHash |-> FALSE, ignoreDiscoursePostNumber |-> FALSE]

\* a fold of http to https that does not ask the policy
ignoreProtocolAlways(u, settings) ==
  IF u.protocol = "http:" THEN setProtocolHttps(u) ELSE u

ignoreProtocol(u, settings) ==
  IF settings.ignoreProtocol /\ u.protocol = "http:" THEN setProtocolHttps(u) ELSE u

ignoreHash(u, settings) ==
  IF settings.ignoreHash THEN [u EXCEPT !.hasHash = FALSE, !.hash = ""] ELSE u

ignoreDiscoursePostNumber(u, settings) ==
  IF settings.ignoreDiscoursePostNumber /\ includes(u.pathname, "/t/topic/")
  THEN setPathname(u, dropPostNumber(u.pathname)) ELSE u

ignoreWww(u, settings) ==
  IF settings.ignoreWww /\ startsWith(u.hostname, "www.")
  THEN setHostname(u, SubSeq(u.hostname, 5, Len(u.hostname))) ELSE u

dropDefaultPort(u) == IF u.port = defaultPort(u.protocol) THEN [u EXCEPT !.port = -1] ELSE u

ignoreTrailingSlash(normalized, settings) ==
  IF settings.ignoreTrailingSlash /\ endsWith(normalized, "/")
  THEN SubSeq(normalized, 1, Len(normalized) - 1) ELSE normalized

ignoreCase(normalized, settings) ==
  IF settings.ignoreCase THEN toLowerCase(normalized) ELSE normalized

\* the try block of normalizeUrl on the parsed URL, and its catch block on NoUrl
normalizeParsed(urlObj, url, settings) ==
  IF urlObj.ok
  THEN ignoreCase(
         ignoreTrailingSlash(
           href(dropDefaultPort(ignoreWww(ignoreDiscoursePostNumber(
                  ignoreHash(ignoreProtocol(urlObj, settings), settings), settings), settings))),
           settings),
         settings)
  ELSE ignoreCase(url, settings)

normalizeUrl(url, settings) ==
  normalizeParsed(
    parseUrl(IF settings.ignoreTrailingSlash THEN stripTrailingSlashes(url) ELSE url),
    url, settings)

(***************************************************************************)
(* BloomFilter (src/src/utils/bloom-filter.ts)                             *)
(***************************************************************************)
CeilDiv(a, b) == (a + b - 1) \div b

\* false-positive rates are held in thousandths: 1 is 0.001, 500 is 0.5
\* -ln(p) / ln(2)^2, as <<whole part, fraction in 1/100000 rounded up>>
SizeFactor(p) == IF p = 1 THEN <<14, 37759>> ELSE <<1, 44270>>

\* m = ceil(-n * ln(p) / ln(2)^2); agrees with the floating-point result for
\* n in 1..39 and 10000..10039, p in {0.001, 0.5}
calculateOptimalSize(n, p) == SizeFactor(p)[1] * n + CeilDiv(n * SizeFactor(p)[2], 100000)

\* k = ceil((m / n) * ln 2), ln 2 = 0.69314718; same range
calculateOptimalHashCount(m, n) == CeilDiv(m * 6931 + (m * 4718) \div 10000, n * 10000)

\* (the test h[1] < 0 is never true: it makes the accumulator be evaluated at
\* every iteration, as the loop of the code does)
RECURSIVE hashLoop(_, _, _)
hashLoop(item, i, h) ==
  IF i > Len(item) \/ h[1] < 0 THEN h
  ELSE hashLoop(item, i + 1,
                WAdd(WSub(Shl(h, 5), h), ToWord(charCodeAt(item, i))))

hash(item, seed, size) == AbsMod(hashLoop(item, 1, ToWord(seed)), size)

RECURSIVE murmurLoop(_, _, _)
murmurLoop(item, i, h) ==
  IF i > Len(item) \/ h[1] < 0 THEN h
  ELSE LET k1 == imul(ToWord(charCodeAt(item, i)), <<81, 45, 158, 204>>)
           k2 == imul(Rotl(k1, 15), <<147, 53, 135, 27>>)
           h1 == Rotl(WXor(h, k2), 13)
       IN  murmurLoop(item, i + 1, WAdd(imul(h1, ToWord(5)), <<100, 107, 84, 230>>))

murmurHash(item, seed, size) ==
  LET h0 == WXor(murmurLoop(item, 1, ToWord(seed)), ToWord(Len(item)))
      h1 == imul(WXor(h0, Shr(h0, 16)), <<107, 202, 235, 133>>)
      h2 == imul(WXor(h1, Shr(h1, 13)), <<53, 174, 178, 194>>)
      h3 == WXor(h2, Shr(h2, 16))
  IN  AbsMod(h3, size)

\* the k positions (h1 + i * h2) mod m, i = 0 .. k-1
getHashPositions(item, size, hashCount) ==
  LET hash1 == hash(item, 0, size)
      hash2 == murmurHash(item, 1, size)
  IN  [i \in 1..hashCount |-> (hash1 + (i - 1) * hash2) % size]

(***************************************************************************)
(* The strings of the model.  The normalised form and the hash positions   *)
(* of each are computed once, by normalizeUrl and getHashPositions, into   *)
(* the table memo, which no action changes, and are looked up afterwards.  *)
(***************************************************************************)
VARIABLE memo

Urls == {"http://a.com", "http://a.com/", "http://b.com/x"}

TrailingSlashSettings == [NoSettings EXCEPT !.ignoreTrailingSlash = TRUE]

\* the policies the stored settings range over
Policies == {NoSettings, TrailingSlashSettings}

NormalizeTable == [e \in Urls \X Policies |-> normalizeUrl(e[1], e[2])]

NormalizedKeys == {NormalizeTable[e] : e \in Urls \X Policies}

\* the keys of the filter-only specification
FilterKeys == {"a", "b", "c", "d"}

\* <<expected items, false-positive rate in thousandths>> of the filters built
FilterParams ==
  {<<10000 + n, 1>> : n \in 0..Cardinality(NormalizedKeys)} \cup {<<1, 500>>, <<2, 500>>, <<1, 1>>}

FilterShapes ==
  {<<calculateOptimalSize(q[1], q[2]),
     calculateOptimalHashCount(calculateOptimalSize(q[1], q[2]), q[1])>> : q \in FilterParams}

PositionTable ==
  [e \in (NormalizedKeys \cup FilterKeys) \X FilterShapes |->
     getHashPositions(e[1], e[2][1], e[2][2])]

InitMemo == memo = [keys |-> NormalizeTable, positions |-> PositionTable]

\* this.normalizeUrl(url) under the settings in force
normalize(url, settings) == memo.keys[<<url, settings>>]

\* this.getHashPositions(item) in a filter of the given shape
positionsOf(item, size, hashCount) == memo.positions[<<item, <<size, hashCount>>>>]

\* A Uint8Array of n bytes: its length and its non-zero bytes by index (from 0)
Uint8Array(n) == [length |-> n, bytes |-> <<>>]

ByteAt(arr, i) == IF i \in DOMAIN arr.bytes THEN arr.bytes[i] ELSE 0

\* arr[i] = v; a write outside the array is ignored, as for a typed array
SetByte(arr, i, v) ==
  IF i < 0 \/ i >= arr.length THEN arr
  ELSE IF v = 0 THEN [arr EXCEPT !.bytes = [j \in (DOMAIN @) \ {i} |-> @[j]]]
  ELSE [arr EXCEPT !.bytes = (i :> v) @@ @]

\* b | mask and b & mask, for a one-bit mask
BitOr(b, mask) == IF (b \div mask) % 2 = 1 THEN b ELSE b + mask
BitAnd(b, mask) == IF (b \div mask) % 2 = 1 THEN mask ELSE 0

\* new BloomFilter(expectedItems, falsePositiveRate)
NewBloomFilter(expectedItems, p) ==
  LET size == calculateOptimalSize(expectedItems, p)
  IN  [size      |-> size,
       hashCount |-> calculateOptimalHashCount(size, expectedItems),
       bitArray  |-> Uint8Array(CeilDiv(size, 8)),
       itemCount |-> 0]

RECURSIVE setBitsButLast(_, _, _)
\* an add that leaves the bit of the last hash position unset
setBitsButLast(arr, positions, i) ==
  IF i >= Len(positions) THEN arr
  ELSE LET byteIndex == positions[i] \div 8
           bitIndex  == positions[i] % 8
       IN  setBitsButLast(SetByte(arr, byteIndex, BitOr(ByteAt(arr, byteIndex), Pow2(bitIndex))),
                          positions, i + 1)

RECURSIVE setBits(_, _, _)
setBits(arr, positions, i) ==
  IF i > Len(positions) THEN arr
  ELSE LET byteIndex == positions[i] \div 8
           bitIndex  == positions[i] % 8
       IN  setBits(SetByte(arr, byteIndex, BitOr(ByteAt(arr, byteIndex), Pow2(bitIndex))),
                   positions, i + 1)

add(f, item) ==
  [f EXCEPT !.bitArray = setBits(@, positionsOf(item, f.size, f.hashCount), 1),
            !.itemCount = @ + 1]

contains(f, item) ==
  LET positions == positionsOf(item, f.size, f.hashCount)
  IN  \A i \in 1..Len(positions) :
        BitAnd(ByteAt(f.bitArray, positions[i] \div 8), Pow2(positions[i] % 8)) # 0

\* the bytes of new Uint32Array([n]): little endian
Uint32Bytes(n) == ToWord(n)

\* a serialize that writes the bits and the first two words, and leaves the word of
\* the item count zero
combinedBytesNoCount(f) ==
  LET meta == Uint32Bytes(f.size) \o Uint32Bytes(f.hashCount) \o Uint32Bytes(0)
  IN  [length |-> 12 + f.bitArray.length,
       bytes  |-> [i \in {j \in 0..11 : meta[j + 1] # 0}
                         \cup {j + 12 : j \in DOMAIN f.bitArray.bytes} |->
                     IF i < 12 THEN meta[i + 1] ELSE f.bitArray.bytes[i - 12]]]

\* the byte array `combined` of serialize(): 12 bytes of metadata, then the bits
combinedBytes(f) ==
  LET meta == Uint32Bytes(f.size) \o Uint32Bytes(f.hashCount) \o Uint32Bytes(f.itemCount)
  IN  [length |-> 12 + f.bitArray.length,
       bytes  |-> [i \in {j \in 0..11 : meta[j + 1] # 0}
                         \cup {j + 12 : j \in DOMAIN f.bitArray.bytes} |->
                     IF i < 12 THEN meta[i + 1] ELSE f.bitArray.bytes[i - 12]]]

\* the array as the sequence of its bytes
Dense(arr) == [i \in 1..arr.length |-> ByteAt(arr, i - 1)]

Sparse(seq) == [length |-> Len(seq),
                bytes  |-> [i \in {j \in 0..(Len(seq) - 1) : seq[j + 1] # 0} |-> seq[i + 1]]]

Base64Alphabet == "ABCDEFGHIJKLMNOPQRSTUVWXYZabcdefghijklmnopqrstuvwxyz0123456789+/"

\* btoa of the binary string whose character codes are bytes[i..]
RECURSIVE btoa(_, _)
btoa(bytes, i) ==
  IF i > Len(bytes) THEN ""
  ELSE LET n  == Len(bytes)
           b1 == bytes[i]
           b2 == IF i + 1 <= n THEN bytes[i + 1] ELSE 0
           b3 == IF i + 2 <= n THEN bytes[i + 2] ELSE 0
       IN  CharAt(Base64Alphabet, (b1 \div 4) + 1)
           \o CharAt(Base64Alphabet, ((b1 % 4) * 16) + (b2 \div 16) + 1)
           \o (IF i + 1 > n THEN "=" ELSE CharAt(Base64Alphabet, ((b2 % 16) * 4) + (b3 \div 64) + 1))
           \o (IF i + 2 > n THEN "=" ELSE CharAt(Base64Alphabet, (b3 % 64) + 1))
           \o btoa(bytes, i + 3)

\* the 6-bit value of a base64 character, -1 for any other character
Sextet(c) ==
  IF \E n \in 1..64 : CharAt(Base64Alphabet, n) = c
  THEN (CHOOSE n \in 1..64 : CharAt(Base64Alphabet, n) = c) - 1
  ELSE -1

\* the data of a base64 text without its padding
Unpadded(s) ==
  IF Len(s) % 4 = 0 /\ Len(s) >= 2 /\ SubSeq(s, Len(s) - 1, Len(s)) = "=="
  THEN SubSeq(s, 1, Len(s) - 2)
  ELSE IF Len(s) % 4 = 0 /\ Len(s) >= 1 /\ CharAt(s, Len(s)) = "="
  THEN SubSeq(s, 1, Len(s) - 1)
  ELSE s

RECURSIVE atobFrom(_, _)
atobFrom(d, i) ==
  IF i > Len(d) THEN <<>>
  ELSE LET n  == Len(d)
           s1 == Sextet(CharAt(d, i))
           s2 == Sextet(CharAt(d, i + 1))
           s3 == IF i + 2 <= n THEN Sextet(CharAt(d, i + 2)) ELSE 0
           s4 == IF i + 3 <= n THEN Sextet(CharAt(d, i + 3)) ELSE 0
       IN  <<(s1 * 4) + (s2 \div 16)>>
           \o (IF i + 2 <= n THEN <<((s2 % 16) * 16) + (s3 \div 4)>> ELSE <<>>)
           \o (IF i + 3 <= n THEN <<((s3 % 4) * 64) + s4>> ELSE <<>>)
           \o atobFrom(d, i + 4)

\* atob: the bytes, or a thrown InvalidCharacterError
atob(s) ==
  LET d == Unpadded(s)
  IN  IF Len(d) % 4 = 1 \/ \E i \in 1..Len(d) : Sextet(CharAt(d, i)) < 0
      THEN [ok |-> FALSE, bytes |-> <<>>]
      ELSE [ok |-> TRUE, bytes |-> atobFrom(d, 1)]

serialize(f) == btoa(Dense(combinedBytes(f)), 1)

Uint32At(seq, i) ==
  seq[i] + (256 * seq[i + 1]) + (65536 * seq[i + 2]) + (16777216 * seq[i + 3])

\* the filter held in the byte array `bytes` of deserialize(); new Uint32Array
\* throws a RangeError when the metadata slice is not a whole number of words,
\* and yields undefined fields when it is shorter than three words
filterOfBytes(arr) ==
  LET metaLen == IF arr.length < 12 THEN arr.length ELSE 12
      word(w) == IF metaLen >= 4 * w
                 THEN ByteAt(arr, (4 * w) - 4) + (256 * ByteAt(arr, (4 * w) - 3))
                      + (65536 * ByteAt(arr, (4 * w) - 2)) + (16777216 * ByteAt(arr, (4 * w) - 1))
                 ELSE -1
  IN  IF metaLen % 4 # 0
      THEN [ok |-> FALSE]
      ELSE [ok |-> TRUE,
            filter |-> [size      |-> word(1),
                        hashCount |-> word(2),
                        itemCount |-> word(3),
                        bitArray  |->
                          [length |-> IF arr.length > 12 THEN arr.length - 12 ELSE 0,
                           bytes  |-> [i \in {j - 12 : j \in {x \in DOMAIN arr.bytes : x >= 12}}
                                         |-> arr.bytes[i + 12]]]]]

deserialize(data) ==
  IF atob(data).ok THEN filterOfBytes(Sparse(atob(data).bytes)) ELSE [ok |-> FALSE]


(***************************************************************************)
(* The bookmark cache manager (BookmarkCacheService) and the storage       *)
(* adapter (StorageService).                                               *)
(*                                                                         *)
(* JavaScript runs one handler at a time: an action below is the code that *)
(* runs from one suspension point (an await of the bookmark tree or of     *)
(* storage) to the next.  A nullable value is <<>> (null) or <<v>>.        *)
(***************************************************************************)
VARIABLES
  tree,            \* the bookmark store: the URLs of its nodes, in depth-first order
  storedSettings,  \* chrome.storage.local, key 'settings'
  persisted,       \* chrome.storage.local, key 'bookmark_cache' (nullable)
  now,             \* Date.now(), in days
  listeners,       \* how many times setupBookmarkListeners has registered the handlers
  svc,             \* the fields of the BookmarkCacheService instance
  task,            \* the calls in flight: where each is suspended, and how it ended
  query,           \* the arguments of the query in flight
  returned,        \* the calls that returned in the step just taken
  events,          \* how many times the world around the service has acted: a bookmark
                   \* event, a day passing, a change of the settings, a request for a
                   \* rebuild, a failed operation
  faults,          \* how many of these were failed operations
  missed,          \* whether a bookmark event was raised with no listener registered
  bf,              \* filter-only specification: the filter (nullable)
  bfAdded,         \* filter-only specification: the keys added to bf
  bfRestored,      \* filter-only specification: bf came out of deserialize
  initFailed,      \* history: a call of initialize has failed
  probe,           \* function-only specifications: the arguments of a call and what
                   \* it returned (nullable)
  qm               \* the fields of the content script's QueryManager instance and its
                   \* processQueue loops in flight

vars == <<tree, storedSettings, persisted, now, listeners, svc, task, query, returned,
          events, faults, missed, bf, bfAdded, bfRestored, memo, initFailed, probe, qm>>

MaxListeners == 1
MaxNow == 9
MaxEvents == 2
MaxItems == 3
MaxTree == 2

Headroom == 10000
TargetRate == 1
SevenDays == 7
SchemaVersion == 1

Range(f) == {f[i] : i \in DOMAIN f}

\* the QueryManager as constructed: an empty queue, isQuerying false, no loop in flight
NewQueryManager == [queryQueue |-> <<>>, isQuerying |-> FALSE, loops |-> <<>>]

RECURSIVE SetToSeq(_)
\* Array.from(set)
SetToSeq(S) ==
  IF S = {} THEN <<>> ELSE LET e == CHOOSE e \in S : TRUE IN <<e>> \o SetToSeq(S \ {e})

\* the instance as constructed.  saveTimer and rebuildTimer tell whether the field
\* holds a timer id; timeouts counts the timeouts of each kind that the instance has
\* set and that the platform has neither fired nor cleared
NewService ==
  [bloomFilter      |-> <<>>,
   urlSet           |-> {},
   urlMap           |-> <<>>,
   metadata         |-> [version |-> SchemaVersion, bookmarkCount |-> 0, lastUpdated |-> 0],
   isBuilding       |-> FALSE,
   saveTimer        |-> FALSE,
   rebuildTimer     |-> FALSE,
   timeouts         |-> [save |-> 0, rebuild |-> 0],
   isInitializing   |-> FALSE,
   pendingAdditions |-> <<>>,
   urlMatchSettings |-> NoSettings]

RECURSIVE traverse(_, _, _, _)
traverse(nodes, i, settings, acc) ==
  IF i > Len(nodes) THEN acc
  ELSE LET normalizedUrl == normalize(nodes[i], settings)
       IN  traverse(nodes, i + 1, settings,
             IF normalizedUrl # ""
             THEN [urlSet |-> acc.urlSet \cup {normalizedUrl},
                   urlMap |-> IF normalizedUrl \in DOMAIN acc.urlMap
                              THEN acc.urlMap
                              ELSE (normalizedUrl :> nodes[i]) @@ acc.urlMap]
             ELSE acc)

extractUrlsFromTree(nodes, settings) ==
  traverse(nodes, 1, settings, [urlSet |-> {}, urlMap |-> <<>>])

RECURSIVE addMany(_, _)
addMany(f, items) ==
  IF items = {} THEN f
  ELSE LET item == CHOOSE e \in items : TRUE IN addMany(add(f, item), items \ {item})

\* a fullRebuild that assigns the new filter and leaves the set and the map for later
tornRebuild(s, bookmarkTree, time) ==
  LET ex == extractUrlsFromTree(bookmarkTree, s.urlMatchSettings)
  IN  [s EXCEPT
         !.bloomFilter = <<addMany(NewBloomFilter(Cardinality(ex.urlSet) + Headroom, TargetRate),
                                   ex.urlSet)>>]

\* fullRebuild, from the tree it was given to the end of its assignments
rebuildMemory(s, bookmarkTree, time) ==
  LET ex == extractUrlsFromTree(bookmarkTree, s.urlMatchSettings)
  IN  [s EXCEPT
         !.bloomFilter = <<addMany(NewBloomFilter(Cardinality(ex.urlSet) + Headroom, TargetRate),
                                   ex.urlSet)>>,
         !.urlSet   = ex.urlSet,
         !.urlMap   = ex.urlMap,
         !.metadata = [version |-> SchemaVersion, bookmarkCount |-> Cardinality(ex.urlSet),
                       lastUpdated |-> time]]

\* clearTimeout(id) for the id held in a timer field: one timeout fewer is pending
\* when the field holds one
clearTimeout(pending, held) == IF held THEN pending - 1 ELSE pending

\* a debouncedSave that leaves the earlier save timer running
debouncedSaveTwice(s) ==
  IF s.rebuildTimer THEN s
  ELSE [s EXCEPT !.saveTimer = TRUE, !.timeouts.save = @ + 1]

debouncedSave(s) ==
  IF s.rebuildTimer THEN s
  ELSE [s EXCEPT !.saveTimer = TRUE,
                 !.timeouts.save = clearTimeout(@, s.saveTimer) + 1]

\* a debouncedRebuild that leaves the pending save alone
debouncedRebuildKeepsSave(s) ==
  [s EXCEPT !.rebuildTimer = TRUE,
            !.timeouts.rebuild = clearTimeout(@, s.rebuildTimer) + 1]

debouncedRebuild(s) ==
  [s EXCEPT !.saveTimer = FALSE,
            !.rebuildTimer = TRUE,
            !.timeouts.save = clearTimeout(@, s.saveTimer),
            !.timeouts.rebuild = clearTimeout(@, s.rebuildTimer) + 1]

\* an onBookmarkAdded that adds the key to the set and the map, and not to the filter
onBookmarkAddedSetOnly(s, url, time) ==
  IF s.isInitializing \/ s.isBuilding
  THEN [s EXCEPT !.pendingAdditions = Append(@, url)]
  ELSE LET normalizedUrl == normalize(url, s.urlMatchSettings)
       IN  IF normalizedUrl # "" /\ normalizedUrl \notin s.urlSet
           THEN debouncedSave(
                  [s EXCEPT !.urlSet = @ \cup {normalizedUrl},
                            !.urlMap = (normalizedUrl :> url) @@ @,
                            !.metadata.bookmarkCount = @ + 1,
                            !.metadata.lastUpdated = time])
           ELSE s

\* an onBookmarkAdded that leaves bookmarkCount as it was
onBookmarkAddedUncounted(s, url, time) ==
  IF s.isInitializing \/ s.isBuilding
  THEN [s EXCEPT !.pendingAdditions = Append(@, url)]
  ELSE LET normalizedUrl == normalize(url, s.urlMatchSettings)
       IN  IF normalizedUrl # "" /\ normalizedUrl \notin s.urlSet
           THEN debouncedSave(
                  [s EXCEPT !.urlSet = @ \cup {normalizedUrl},
                            !.urlMap = (normalizedUrl :> url) @@ @,
                            !.bloomFilter = IF @ = <<>> THEN @ ELSE <<add(@[1], normalizedUrl)>>,
                            !.metadata.lastUpdated = time])
           ELSE s

\* an onBookmarkAdded that asks for the debounced rebuild
onBookmarkAddedRebuilds(s, url, time) ==
  IF s.isInitializing \/ s.isBuilding
  THEN [s EXCEPT !.pendingAdditions = Append(@, url)]
  ELSE LET normalizedUrl == normalize(url, s.urlMatchSettings)
       IN  IF normalizedUrl # "" /\ normalizedUrl \notin s.urlSet
           THEN debouncedRebuild(
                  [s EXCEPT !.urlSet = @ \cup {normalizedUrl},
                            !.urlMap = (normalizedUrl :> url) @@ @,
                            !.bloomFilter = IF @ = <<>> THEN @ ELSE <<add(@[1], normalizedUrl)>>,
                            !.metadata.bookmarkCount = @ + 1,
                            !.metadata.lastUpdated = time])
           ELSE s

onBookmarkAdded(s, url, time) ==
  IF s.isInitializing \/ s.isBuilding
  THEN [s EXCEPT !.pendingAdditions = Append(@, url)]
  ELSE LET normalizedUrl == normalize(url, s.urlMatchSettings)
       IN  IF normalizedUrl # "" /\ normalizedUrl \notin s.urlSet
           THEN debouncedSave(
                  [s EXCEPT !.urlSet = @ \cup {normalizedUrl},
                            !.urlMap = (normalizedUrl :> url) @@ @,
                            !.bloomFilter = IF @ = <<>> THEN @ ELSE <<add(@[1], normalizedUrl)>>,
                            !.metadata.bookmarkCount = @ + 1,
                            !.metadata.lastUpdated = time])
           ELSE s

onBookmarkChanged(s) == debouncedRebuild(s)

\* an onMoved listener that asks for the debounced rebuild
onBookmarkMovedRebuilds(s, time) == debouncedRebuild([s EXCEPT !.metadata.lastUpdated = time])

onBookmarkMoved(s, time) == debouncedSave([s EXCEPT !.metadata.lastUpdated = time])

\* the record saveCache hands to storage.  bloomFilterData is the byte array of
\* serialize(); its text encodings (btoa, TextEncoder, arrayBufferToBase64) and
\* their inverses on load are modelled on byte sequences by serialize and
\* deserialize and are not repeated on the 18 kB arrays of this filter
cacheRecord(s) ==
  [bloomFilterData |-> combinedBytes(s.bloomFilter[1]),
   urls            |-> SetToSeq(s.urlSet),
   metadata        |-> s.metadata]

\* a saveCache that raises no notification
saveCacheQuiet(stored, record, written) ==
  IF written = "ok" THEN [stored |-> <<record>>, notified |-> FALSE, threw |-> FALSE]
  ELSE [stored |-> stored, notified |-> FALSE, threw |-> TRUE]

\* StorageService.saveCache of the record on the stored value: what is stored afterwards,
\* whether a notification was created, whether the call threw.  written is how
\* chrome.storage.local.set ended: ok, or rejected with the QUOTA_BYTES error (quota),
\* or rejected with another error (error); a rejected set leaves the key as it was
saveCache(stored, record, written) ==
  IF written = "ok" THEN [stored |-> <<record>>, notified |-> FALSE, threw |-> FALSE]
  ELSE [stored |-> stored, notified |-> written = "quota", threw |-> TRUE]

\* StorageService.loadCache on the stored value; got is FALSE when the read fails
loadCache(stored, got) ==
  IF ~ got \/ stored = <<>> THEN <<>>
  ELSE <<[bloomFilterData |-> stored[1].bloomFilterData,
          urlSet          |-> Range(stored[1].urls),
          metadata        |-> stored[1].metadata]>>

\* an isValidCache that looks at neither the version nor the age of the record
isValidCacheAnyRecord(cache, time) == cache.urlSet # {}

isValidCache(cache, time) ==
  /\ cache.metadata.version = SchemaVersion
  /\ ~ (time - cache.metadata.lastUpdated > SevenDays)
  /\ cache.urlSet # {}

\* loadCacheToMemory: ok is FALSE when deserialize throws
loadCacheToMemory(s, cache) ==
  LET d == filterOfBytes(cache.bloomFilterData)
  IN  IF d.ok
      THEN [ok |-> TRUE,
            svc |-> [s EXCEPT !.bloomFilter = <<d.filter>>,
                              !.urlSet = cache.urlSet,
                              !.urlMap = <<>>,
                              !.metadata = cache.metadata]]
      ELSE [ok |-> FALSE, svc |-> s]

\* buildUrlMap after its await; a failed tree read is caught and changes nothing
buildUrlMap(s, bookmarkTree, got) ==
  IF got THEN [s EXCEPT !.urlMap = extractUrlsFromTree(bookmarkTree, s.urlMatchSettings).urlMap]
  ELSE s

\* loadUrlMatchSettings after its await; a failed read is caught
loadUrlMatchSettings(s, stored, got) ==
  IF got THEN [s EXCEPT !.urlMatchSettings = stored] ELSE s

RECURSIVE replay(_, _, _, _)
replay(s, urls, i, time) ==
  IF i > Len(urls) THEN s ELSE replay(onBookmarkAdded(s, urls[i], time), urls, i + 1, time)

\* the finally block of initialize
finishInitialize(s, time) ==
  LET s1 == [s EXCEPT !.isInitializing = FALSE]
  IN  IF Len(s1.pendingAdditions) > 0
      THEN [replay(s1, s1.pendingAdditions, 1, time) EXCEPT !.pendingAdditions = <<>>]
      ELSE s1

\* a queryUrls that answers with the keys of the bookmarked inputs
queryUrlsKeys(s, urls) ==
  LET hits == SelectSeq(urls, LAMBDA url :
                /\ s.bloomFilter # <<>>
                /\ contains(s.bloomFilter[1], normalize(url, s.urlMatchSettings))
                /\ normalize(url, s.urlMatchSettings) \in s.urlSet)
  IN  [i \in 1..Len(hits) |-> normalize(hits[i], s.urlMatchSettings)]

\* the loop of queryUrls
queryUrlsResult(s, urls) ==
  SelectSeq(urls, LAMBDA url :
    /\ s.bloomFilter # <<>>
    /\ contains(s.bloomFilter[1], normalize(url, s.urlMatchSettings))
    /\ normalize(url, s.urlMatchSettings) \in s.urlSet)

\* the loop of queryUrlsWithDetails; bookmarkUrl is nullable
queryUrlsWithDetailsResult(s, urls) ==
  [i \in 1..Len(urls) |->
     LET normalizedUrl == normalize(urls[i], s.urlMatchSettings)
         hit == /\ s.bloomFilter # <<>>
                /\ contains(s.bloomFilter[1], normalizedUrl)
                /\ normalizedUrl \in s.urlSet
     IN  [original     |-> urls[i],
          normalized   |-> normalizedUrl,
          isBookmarked |-> hit,
          bookmarkUrl  |-> IF hit /\ normalizedUrl \in DOMAIN s.urlMap
                           THEN <<s.urlMap[normalizedUrl]>> ELSE <<>>]]

\* the test that sends a query to initialize first
notReady(s) == s.bloomFilter = <<>> \/ s.urlSet = {}

(***************************************************************************)
(* The calls in flight.  Each caller has one slot: the background          *)
(* service's initialize, a content script's query (which runs initialize   *)
(* itself when the cache is not ready), the options page's reloadSettings, *)
(* the rebuild timer's fullRebuild and the fullRebuild that the background *)
(* script calls for a TRIGGER_CACHE_REBUILD message.  pc names the await a *)
(* call is suspended at.  seen is history: the URLs created while the      *)
(* slot's initialize was running that are still bookmarked.  returned      *)
(* lists the calls that returned in the step just taken, innermost first.  *)
(***************************************************************************)
Callers == {"initialize", "query", "reloadSettings", "rebuildTimer", "triggerRebuild"}

InitializePcs == {"settings", "loadCache", "mapTree", "getTree", "saveCache"}

InInitialize(c) == c \in {"initialize", "query"} /\ task[c].pc \in InitializePcs

NoQuery == [op |-> "", urls |-> <<>>]

\* the return of a call: how it ended and, for a query, its arguments and its answer
Return(call, outcome) ==
  [call |-> call, outcome |-> outcome, seen |-> {}, urls |-> <<>>, answer |-> <<>>]

Outcome(s, pc, returns) == [svc |-> s, pc |-> pc, returns |-> returns]

answerOf(s, q) ==
  IF q.op = "queryUrls" THEN queryUrlsResult(s, q.urls)
  ELSE queryUrlsWithDetailsResult(s, q.urls)

Answer(s, q) == [Return(q.op, "done") EXCEPT !.urls = q.urls, !.answer = <<answerOf(s, q)>>]

\* a query from its readiness test on
afterReady(s, q, returns) ==
  IF q.op = "queryUrlsWithDetails" /\ DOMAIN s.urlMap = {} /\ s.urlSet # {}
  THEN Outcome(s, "detailsMap", returns)
  ELSE Outcome(s, "idle", Append(returns, Answer(s, q)))

\* the end of initialize in slot c: its finally block, then what its caller does
afterInitialize(c, s, failed, returns) ==
  LET s1 == finishInitialize(s, now)
      rs == Append(returns, [Return("initialize", IF failed THEN "failed" ELSE "done")
                               EXCEPT !.seen = task[c].seen])
  IN  IF c # "query" THEN Outcome(s1, "idle", rs)
      ELSE IF failed THEN Outcome(s1, "idle", Append(rs, Return(query.op, "failed")))
      ELSE afterReady(s1, query, rs)

\* a fullRebuild whose failure its callers never see
afterFullRebuildSwallowed(c, s, outcome) ==
  IF c \in {"initialize", "query"}
  THEN afterInitialize(c, s, FALSE, <<Return("fullRebuild", "done")>>)
  ELSE IF c \in {"reloadSettings", "triggerRebuild"}
  THEN Outcome(s, "idle", <<Return("fullRebuild", "done"), Return(c, "done")>>)
  ELSE Outcome(s, "idle", <<Return("fullRebuild", "done")>>)

\* the return of fullRebuild to slot c; outcome is done, skipped or failed.  The
\* callers that await it without a try block (reloadSettings, the message handler)
\* fail when it fails
afterFullRebuild(c, s, outcome) ==
  IF c \in {"initialize", "query"}
  THEN afterInitialize(c, s, outcome = "failed", <<Return("fullRebuild", outcome)>>)
  ELSE IF c \in {"reloadSettings", "triggerRebuild"}
  THEN Outcome(s, "idle", <<Return("fullRebuild", outcome),
                            Return(c, IF outcome = "failed" THEN "failed" ELSE "done")>>)
  ELSE Outcome(s, "idle", <<Return("fullRebuild", outcome)>>)

\* a fullRebuild without its guard
callFullRebuildUnguarded(c, s) == Outcome([s EXCEPT !.isBuilding = TRUE], "getTree", <<>>)

\* a call of fullRebuild from slot c, up to its first await
callFullRebuild(c, s) ==
  IF s.isBuilding THEN afterFullRebuild(c, s, "skipped")
  ELSE Outcome([s EXCEPT !.isBuilding = TRUE], "getTree", <<>>)

\* a call of this name is among the returns, and it threw
Failed(returns, call) ==
  \E i \in DOMAIN returns : returns[i].call = call /\ returns[i].outcome = "failed"

\* the step of slot c that ends in r
Resume(c, r) ==
  /\ svc' = r.svc
  /\ task' = [task EXCEPT ![c] = [pc |-> r.pc,
                                  seen |-> IF r.pc \in InitializePcs THEN @.seen ELSE {}]]
  /\ query' = IF c = "query" /\ r.pc = "idle" THEN NoQuery ELSE query
  /\ returned' = r.returns
  /\ initFailed' = (initFailed \/ Failed(r.returns, "initialize"))

\* whether an operation of the platform succeeds
Got == IF events < MaxEvents THEN BOOLEAN ELSE {TRUE}

\* how a write to the storage ends
SaveOutcomes == IF events < MaxEvents THEN {"ok", "quota", "error"} ELSE {"ok"}

Fault(got) ==
  /\ events' = IF got THEN events ELSE events + 1
  /\ faults' = IF got THEN faults ELSE faults + 1

NewCall == [pc |-> "settings", seen |-> {}]

\* initialize(), to its first await
Initialize ==
  /\ task["initialize"].pc = "idle"
  /\ listeners < MaxListeners
  /\ listeners' = listeners + 1
  /\ task' = [task EXCEPT !["initialize"] = NewCall]
  /\ returned' = <<>>
  /\ UNCHANGED <<tree, storedSettings, persisted, now, svc, query, events, faults,
                 bf, bfAdded, bfRestored, memo, probe, qm, initFailed, missed>>

\* how many more initializations a query may start once an initialization has failed,
\* or has returned without error and left the cache not ready
MaxRetries == 1

\* the first initialization has returned without error and none is in flight
Initialized ==
  /\ listeners = MaxListeners
  /\ ~initFailed
  /\ \A c \in Callers : ~InInitialize(c)

QueryInput == <<"http://b.com/x", "http://a.com", "http://a.com/">>

\* queryUrls(urls) or queryUrlsWithDetails(urls), to its first await or its return
Query ==
  \E op \in {"queryUrls", "queryUrlsWithDetails"} :
    /\ task["query"].pc = "idle"
    /\ IF notReady(svc)
       THEN /\ listeners < MaxListeners + (IF initFailed \/ Initialized THEN MaxRetries ELSE 0)
            /\ listeners' = listeners + 1
            /\ task' = [task EXCEPT !["query"] = NewCall]
            /\ query' = [op |-> op, urls |-> QueryInput]
            /\ returned' = <<>>
            /\ svc' = svc
       ELSE /\ listeners' = listeners
            /\ LET q == [op |-> op, urls |-> QueryInput]
                   r == afterReady(svc, q, <<>>)
               IN  /\ svc' = r.svc
                   /\ task' = [task EXCEPT !["query"] = [pc |-> r.pc, seen |-> {}]]
                   /\ query' = IF r.pc = "idle" THEN NoQuery ELSE q
                   /\ returned' = r.returns
    /\ UNCHANGED <<tree, storedSettings, persisted, now, events, faults, bf, bfAdded,
                   bfRestored, memo, probe, qm, initFailed, missed>>

\* reloadSettings(), to its first await
ReloadSettings ==
  /\ task["reloadSettings"].pc = "idle"
  /\ task' = [task EXCEPT !["reloadSettings"] = NewCall]
  /\ returned' = <<>>
  /\ UNCHANGED <<tree, storedSettings, persisted, now, listeners, svc, query, events, faults,
                 bf, bfAdded, bfRestored, memo, probe, qm, initFailed, missed>>

\* the background script handles TRIGGER_CACHE_REBUILD: fullRebuild(), to its first
\* await or its return
TriggerRebuild ==
  /\ task["triggerRebuild"].pc = "idle"
  /\ events < MaxEvents
  /\ events' = events + 1
  /\ Resume("triggerRebuild", callFullRebuild("triggerRebuild", svc))
  /\ UNCHANGED <<tree, storedSettings, persisted, now, listeners, faults,
                 bf, bfAdded, bfRestored, memo, probe, qm, missed>>

\* loadUrlMatchSettings resumes; initialize raises its guard, reloadSettings calls fullRebuild
SettingsLoaded(c) ==
  /\ task[c].pc = "settings"
  /\ \E got \in Got :
       LET s1 == loadUrlMatchSettings(svc, storedSettings, got)
       IN  /\ Resume(c, IF c = "reloadSettings" THEN callFullRebuild(c, s1)
                        ELSE Outcome([s1 EXCEPT !.isInitializing = TRUE,
                                                !.pendingAdditions = <<>>], "loadCache", <<>>))
           /\ Fault(got)
  /\ UNCHANGED <<tree, storedSettings, persisted, now, listeners, bf, bfAdded,
                 bfRestored, memo, probe, qm, missed>>

\* the body of the try block of initialize once loadCache has returned
afterLoadCache(c, s, cache) ==
  IF cache # <<>> /\ isValidCache(cache[1], now)
  THEN IF loadCacheToMemory(s, cache[1]).ok
       THEN Outcome(loadCacheToMemory(s, cache[1]).svc, "mapTree", <<>>)
       ELSE afterInitialize(c, s, TRUE, <<>>)
  ELSE callFullRebuild(c, [s EXCEPT !.isInitializing = FALSE])

\* StorageService.loadCache resumes in initialize
CacheLoaded(c) ==
  /\ task[c].pc = "loadCache"
  /\ \E got \in Got :
       /\ Resume(c, afterLoadCache(c, svc, loadCache(persisted, got)))
       /\ Fault(got)
  /\ UNCHANGED <<tree, storedSettings, persisted, now, listeners, bf, bfAdded,
                 bfRestored, memo, probe, qm, missed>>

\* buildUrlMap resumes in initialize
MapBuilt(c) ==
  /\ task[c].pc = "mapTree"
  /\ \E got \in Got :
       /\ Resume(c, afterInitialize(c, buildUrlMap(svc, tree, got), FALSE, <<>>))
       /\ Fault(got)
  /\ UNCHANGED <<tree, storedSettings, persisted, now, listeners, bf, bfAdded,
                 bfRestored, memo, probe, qm, missed>>

\* chrome.bookmarks.getTree resumes in fullRebuild: the rebuild's assignments and its
\* call of saveCache, whose write reaches storage in the order it was issued; or the
\* read fails, and the finally block releases the guard
TreeRead(c) ==
  /\ task[c].pc = "getTree"
  /\ \E got \in Got :
       IF got
       THEN /\ Resume(c, Outcome(rebuildMemory(svc, tree, now), "saveCache", <<>>))
            /\ \E written \in SaveOutcomes :
                 /\ persisted' = saveCache(persisted, cacheRecord(rebuildMemory(svc, tree, now)),
                                            written).stored
                 /\ Fault(written = "ok")
       ELSE /\ Resume(c, afterFullRebuild(c, [svc EXCEPT !.isBuilding = FALSE], "failed"))
            /\ Fault(got)
            /\ persisted' = persisted
  /\ UNCHANGED <<tree, storedSettings, now, listeners, bf, bfAdded, bfRestored, memo, probe, qm, missed>>

\* saveCache resumes in fullRebuild: the finally block, then the caller
SaveDone(c) ==
  /\ task[c].pc = "saveCache"
  /\ Resume(c, afterFullRebuild(c, [svc EXCEPT !.isBuilding = FALSE], "done"))
  /\ UNCHANGED <<tree, storedSettings, persisted, now, listeners, events, faults,
                 bf, bfAdded, bfRestored, memo, probe, qm, missed>>

\* buildUrlMap resumes in queryUrlsWithDetails
DetailsMapBuilt ==
  /\ task["query"].pc = "detailsMap"
  /\ \E got \in Got :
       /\ Resume("query", Outcome(buildUrlMap(svc, tree, got), "idle",
                                  <<Answer(buildUrlMap(svc, tree, got), query)>>))
       /\ Fault(got)
  /\ UNCHANGED <<tree, storedSettings, persisted, now, listeners, bf, bfAdded,
                 bfRestored, memo, probe, qm, missed>>

\* the rebuild timer fires: fullRebuild() to its first await, then rebuildTimer = null.
\* A call the guard turns away leaves the slot of the rebuild in flight as it is
RebuildTimerFires ==
  /\ svc.timeouts.rebuild > 0
  /\ IF svc.isBuilding
     THEN /\ svc' = [svc EXCEPT !.rebuildTimer = FALSE, !.timeouts.rebuild = @ - 1]
          /\ returned' = <<Return("fullRebuild", "skipped")>>
          /\ UNCHANGED <<task, query, initFailed>>
     ELSE Resume("rebuildTimer", callFullRebuild("rebuildTimer",
                          [svc EXCEPT !.rebuildTimer = FALSE, !.timeouts.rebuild = @ - 1]))
  /\ UNCHANGED <<tree, storedSettings, persisted, now, listeners, events, faults,
                 bf, bfAdded, bfRestored, memo, probe, qm, missed>>

\* the save timer fires: saveCache(), then saveTimer = null.  Nothing runs after the
\* await of this saveCache, so the call holds no slot
SaveTimerFires ==
  /\ svc.timeouts.save > 0
  /\ svc' = [svc EXCEPT !.saveTimer = FALSE, !.timeouts.save = @ - 1]
  /\ returned' = <<>>
  /\ IF svc.bloomFilter = <<>>
     THEN UNCHANGED <<persisted, events, faults>>
     ELSE \E written \in SaveOutcomes :
            /\ persisted' = saveCache(persisted, cacheRecord(svc), written).stored
            /\ Fault(written = "ok")
  /\ UNCHANGED <<tree, storedSettings, now, listeners, task, query,
                 bf, bfAdded, bfRestored, memo, probe, qm, initFailed, missed>>

(***************************************************************************)
(* The bookmark store and the platform                                     *)
(***************************************************************************)
RECURSIVE deliver(_, _, _, _)
\* the onCreated listeners, one per registration
deliver(s, url, time, n) ==
  IF n = 0 THEN s ELSE deliver(onBookmarkAdded(s, url, time), url, time, n - 1)

RemoveAt(seq, i) == SubSeq(seq, 1, i - 1) \o SubSeq(seq, i + 1, Len(seq))

forget(u) == [c \in Callers |-> [task[c] EXCEPT !.seen = @ \ {u}]]

\* the user bookmarks url, as the first or the last node
BookmarkCreated ==
  \E url \in Urls \ Range(tree), first \in BOOLEAN :
    /\ events < MaxEvents
    /\ Len(tree) < MaxTree
    /\ events' = events + 1
    /\ faults' = faults
    /\ missed' = (missed \/ listeners = 0)
    /\ tree' = IF first THEN <<url>> \o tree ELSE Append(tree, url)
    /\ svc' = deliver(svc, url, now, listeners)
    /\ task' = [c \in Callers |->
                  IF InInitialize(c) THEN [task[c] EXCEPT !.seen = @ \cup {url}] ELSE task[c]]
    /\ returned' = <<>>
    /\ UNCHANGED <<storedSettings, persisted, now, listeners, query, bf, bfAdded, bfRestored, memo, probe, qm, initFailed>>

\* the user deletes a bookmark
BookmarkRemoved ==
  \E i \in DOMAIN tree :
    /\ events < MaxEvents
    /\ events' = events + 1
    /\ faults' = faults
    /\ missed' = (missed \/ listeners = 0)
    /\ tree' = RemoveAt(tree, i)
    /\ svc' = IF listeners > 0 THEN debouncedRebuild(svc) ELSE svc
    /\ task' = forget(tree[i])
    /\ returned' = <<>>
    /\ UNCHANGED <<storedSettings, persisted, now, listeners, query, bf, bfAdded, bfRestored, memo, probe, qm, initFailed>>

\* the user edits the URL of a bookmark
BookmarkChanged ==
  \E i \in DOMAIN tree, url \in Urls \ Range(tree) :
    /\ events < MaxEvents
    /\ events' = events + 1
    /\ faults' = faults
    /\ missed' = (missed \/ listeners = 0)
    /\ tree' = [tree EXCEPT ![i] = url]
    /\ svc' = IF listeners > 0 THEN onBookmarkChanged(svc) ELSE svc
    /\ task' = forget(tree[i])
    /\ returned' = <<>>
    /\ UNCHANGED <<storedSettings, persisted, now, listeners, query, bf, bfAdded, bfRestored, memo, probe, qm, initFailed>>

\* the user moves a bookmark to the front
BookmarkMoved ==
  \E i \in DOMAIN tree :
    /\ i > 1
    /\ events < MaxEvents
    /\ events' = events + 1
    /\ faults' = faults
    /\ missed' = (missed \/ listeners = 0)
    /\ tree' = <<tree[i]>> \o RemoveAt(tree, i)
    /\ svc' = IF listeners > 0 THEN onBookmarkMoved(svc, now) ELSE svc
    /\ returned' = <<>>
    /\ UNCHANGED <<storedSettings, persisted, now, listeners, task, query, bf, bfAdded, bfRestored, memo, probe, qm, initFailed>>

\* the options page stores another policy
SettingsChanged ==
  \E p \in Policies \ {storedSettings} :
    /\ events < MaxEvents
    /\ events' = events + 1
    /\ faults' = faults
    /\ storedSettings' = p
    /\ returned' = <<>>
    /\ UNCHANGED <<tree, persisted, now, listeners, svc, task, query, bf, bfAdded,
                   bfRestored, memo, probe, qm, initFailed, missed>>

\* a day passes
Tick ==
  /\ now < MaxNow
  /\ events < MaxEvents
  /\ events' = events + 1
  /\ faults' = faults
  /\ now' = now + 1
  /\ returned' = <<>>
  /\ UNCHANGED <<tree, storedSettings, persisted, listeners, svc, task, query,
                 bf, bfAdded, bfRestored, memo, probe, qm, initFailed, missed>>

IdleCall == [pc |-> "idle", seen |-> {}]

InitialTrees == {<<>>, <<"http://a.com/">>}

\* what an earlier run of the service left in storage for the tree: nothing, or the
\* record of its last rebuild, seven days old, or such a record written under an
\* earlier schema version
InitialRecords(nodes) ==
  {<<>>} \cup
  IF nodes = <<>> THEN {}
  ELSE {<<cacheRecord(rebuildMemory(NewService, nodes, 1))>>,
        <<[cacheRecord(rebuildMemory(NewService, nodes, 1)) EXCEPT !.metadata.version = 0]>>}

InitManager ==
  /\ tree \in InitialTrees
  /\ persisted \in InitialRecords(tree)
  /\ storedSettings = NoSettings
  /\ now = SevenDays + 1
  /\ listeners = 0
  /\ svc = NewService
  /\ task = [c \in Callers |-> IdleCall]
  /\ query = NoQuery
  /\ returned = <<>>
  /\ events = 0
  /\ faults = 0
  /\ missed = FALSE
  /\ initFailed = FALSE

Init == InitMemo /\ InitManager /\ bf = <<>> /\ bfAdded = {} /\ bfRestored = FALSE /\ probe = <<>> /\ qm = NewQueryManager

Next ==
  \/ Initialize
  \/ Query
  \/ ReloadSettings
  \/ TriggerRebuild
  \/ \E c \in Callers : SettingsLoaded(c)
  \/ \E c \in Callers : CacheLoaded(c)
  \/ \E c \in Callers : MapBuilt(c)
  \/ \E c \in Callers : TreeRead(c)
  \/ \E c \in Callers : SaveDone(c)
  \/ DetailsMapBuilt
  \/ RebuildTimerFires
  \/ SaveTimerFires
  \/ BookmarkCreated
  \/ BookmarkRemoved
  \/ BookmarkChanged
  \/ BookmarkMoved
  \/ SettingsChanged
  \/ Tick

Spec == Init /\ [][Next]_vars

(***************************************************************************)
(* The filter on its own: filters small enough for positions to collide,   *)
(* and the text of serialize() carried byte for byte.                      *)
(***************************************************************************)
SmallFilters == {<<1, 500>>, <<2, 500>>, <<1, 1>>}

managerVars == <<tree, storedSettings, persisted, now, listeners, svc, task, query, returned,
                 events, faults, missed, memo, initFailed, probe, qm>>

\* new BloomFilter(expectedItems, falsePositiveRate)
BFNew ==
  \E q \in SmallFilters :
    /\ bf' = <<NewBloomFilter(q[1], q[2])>>
    /\ bfAdded' = {}
    /\ bfRestored' = FALSE
    /\ UNCHANGED managerVars

\* bf.add(item)
BFAdd ==
  \E item \in FilterKeys :
    /\ bf # <<>>
    /\ bf[1].itemCount < MaxItems
    /\ bf' = <<add(bf[1], item)>>
    /\ bfAdded' = bfAdded \cup {item}
    /\ UNCHANGED <<bfRestored, managerVars>>

\* bf = BloomFilter.deserialize(bf.serialize())
BFRoundTrip ==
  /\ bf # <<>>
  /\ deserialize(serialize(bf[1])).ok
  /\ bf' = <<deserialize(serialize(bf[1])).filter>>
  /\ bfRestored' = TRUE
  /\ UNCHANGED <<bfAdded, managerVars>>

NextBF == BFNew \/ BFAdd \/ BFRoundTrip

SpecBF == Init /\ [][NextBF]_vars

\* C5: a key added to a filter is reported present from then on, whatever is added
\* after it
NoFalseNegatives == bf # <<>> => \A item \in bfAdded : contains(bf[1], item)

\* a filter holding two keys, one added after the other
TwoKeysAdded == bf # <<>> /\ Cardinality(bfAdded) >= 2 /\ \A item \in bfAdded : contains(bf[1], item)

\* C6: the filter that deserialize builds from the text of serialize has the same
\* size, hash count, item count and bits, and answers contains alike
RoundTripSame ==
  [][BFRoundTrip =>
       /\ bf'[1].size = bf[1].size
       /\ bf'[1].hashCount = bf[1].hashCount
       /\ bf'[1].itemCount = bf[1].itemCount
       /\ bf'[1].bitArray = bf[1].bitArray
       /\ \A item \in FilterKeys : contains(bf'[1], item) = contains(bf[1], item)]_vars

\* a restored filter that holds keys, reports them and turns another key away
RestoredFilter ==
  /\ bf # <<>> /\ bfRestored /\ bfAdded # {}
  /\ \A item \in bfAdded : contains(bf[1], item)
  /\ \E item \in FilterKeys : ~ contains(bf[1], item)

\* C1: a URL whose create event was delivered while initialize was running, and that
\* is still bookmarked, is a key of the exact set when initialize returns, whichever
\* branch initialize took
CreatedDuringInitializeKept ==
  \A i \in DOMAIN returned :
    returned[i].call = "initialize" /\ returned[i].outcome = "done" /\ faults = 0 =>
      \A url \in returned[i].seen : normalize(url, svc.urlMatchSettings) \in svc.urlSet

\* initialize has returned after a create event reached it while it ran
CreatedDuringInitialize ==
  \E i \in DOMAIN returned :
    /\ returned[i].call = "initialize" /\ returned[i].outcome = "done" /\ faults = 0
    /\ returned[i].seen # {}

\* the keys of the bookmark tree under the policy the service holds
treeKeys == {normalize(url, svc.urlMatchSettings) : url \in Range(tree)}

Quiescent ==
  /\ \A c \in Callers : task[c].pc = "idle"
  /\ ~ svc.saveTimer /\ ~ svc.rebuildTimer

\* C2: once the service has initialized and heard every bookmark event, with the
\* policy as it was at the start, no operation failed, every timer fired and every
\* call returned, the exact set is the set of the keys of the tree
ConsistentWhenQuiet ==
  /\ listeners > 0 /\ ~ missed /\ faults = 0 /\ Quiescent
  /\ storedSettings = NoSettings /\ svc.urlMatchSettings = NoSettings
  => svc.urlSet = treeKeys

\* the service is quiet after bookmark events, and the tree holds bookmarks
QuietAfterEvents ==
  /\ listeners > 0 /\ ~ missed /\ faults = 0 /\ Quiescent
  /\ storedSettings = NoSettings /\ svc.urlMatchSettings = NoSettings
  /\ events > 0 /\ Len(tree) = MaxTree

\* the inputs of a query whose key is in the exact set, in input order
bookmarkedInputs(urls) ==
  SelectSeq(urls, LAMBDA url : normalize(url, svc.urlMatchSettings) \in svc.urlSet)

\* C3: with a filter in place, queryUrls returns the inputs whose key is in the exact
\* set, in input order and as they were given
QueryUrlsExact ==
  \A i \in DOMAIN returned :
    returned[i].call = "queryUrls" /\ returned[i].outcome = "done" /\ svc.bloomFilter # <<>> =>
      returned[i].answer = <<bookmarkedInputs(returned[i].urls)>>

\* queryUrls has answered with some of its inputs, one of them a URL that is not
\* its own key, and has left another out
QueryUrlsAnswered ==
  \E i \in DOMAIN returned :
    /\ returned[i].call = "queryUrls" /\ returned[i].outcome = "done"
    /\ svc.bloomFilter # <<>>
    /\ "http://a.com" \in Range(returned[i].answer[1])
    /\ "http://a.com" \notin svc.urlSet
    /\ "http://b.com/x" \notin Range(returned[i].answer[1])

\* the first node of the tree, in depth-first order, with the key
firstWithKey(key) ==
  tree[CHOOSE j \in DOMAIN tree :
         /\ normalize(tree[j], svc.urlMatchSettings) = key
         /\ \A k \in 1..(j - 1) : normalize(tree[k], svc.urlMatchSettings) # key]

\* C4: once initialize has returned, with a filter in place, every bookmark event
\* heard, no operation failed and no rebuild due or running, queryUrlsWithDetails gives
\* one result per input, in input order, with bookmarkUrl only beside isBookmarked; an
\* input whose key is the key of a node of the tree has isBookmarked and, as
\* bookmarkUrl, the URL of the first such node
DetailsMatchTree ==
  \A i \in DOMAIN returned :
    /\ returned[i].call = "queryUrlsWithDetails" /\ returned[i].outcome = "done"
    /\ listeners > 0 /\ ~ missed /\ faults = 0 /\ svc.bloomFilter # <<>>
    /\ \A c \in Callers : ~ InInitialize(c)
    /\ ~ svc.rebuildTimer /\ ~ svc.isBuilding
    =>
      LET urls    == returned[i].urls
          results == returned[i].answer[1]
      IN  /\ Len(results) = Len(urls)
          /\ \A j \in DOMAIN urls :
               /\ results[j].original = urls[j]
               /\ results[j].bookmarkUrl # <<>> => results[j].isBookmarked
               /\ normalize(urls[j], svc.urlMatchSettings) \in treeKeys =>
                    /\ results[j].isBookmarked
                    /\ results[j].bookmarkUrl =
                         <<firstWithKey(normalize(urls[j], svc.urlMatchSettings))>>

\* queryUrlsWithDetails has answered about inputs that share the key of a node of the
\* tree, after a bookmark event
DetailsAnswered ==
  \E i \in DOMAIN returned :
    /\ returned[i].call = "queryUrlsWithDetails" /\ returned[i].outcome = "done"
    /\ listeners > 0 /\ ~ missed /\ faults = 0 /\ svc.bloomFilter # <<>>
    /\ \A c \in Callers : ~ InInitialize(c)
    /\ ~ svc.rebuildTimer /\ ~ svc.isBuilding
    /\ events > 0
    /\ \E j \in DOMAIN returned[i].urls :
         /\ normalize(returned[i].urls[j], svc.urlMatchSettings) \in treeKeys
         /\ returned[i].urls[j] \notin Range(tree)

\* C7: a filter in place reports every key of the exact set
FilterCoversSet ==
  svc.bloomFilter # <<>> => \A key \in svc.urlSet : contains(svc.bloomFilter[1], key)

\* a filter loaded or rebuilt, then a key added to set and filter by a create event
FilterAfterIncrementalAdd ==
  /\ svc.bloomFilter # <<>>
  /\ svc.saveTimer
  /\ Cardinality(svc.urlSet) >= 2
  /\ svc.bloomFilter[1].itemCount >= 2
  /\ \A key \in svc.urlSet : contains(svc.bloomFilter[1], key)

\* C8: as long as no operation has failed, the reverse map has an entry for every key
\* of the exact set
MapCoversSet == faults = 0 => \A key \in svc.urlSet : key \in DOMAIN svc.urlMap

\* initialize is suspended in buildUrlMap, over a set loaded from storage
LoadedFromStorage ==
  /\ faults = 0 /\ svc.urlSet # {}
  /\ \E c \in Callers : task[c].pc = "mapTree"

\* the slots whose fullRebuild is suspended at one of its two awaits
Building == {c \in Callers : task[c].pc \in {"getTree", "saveCache"}}

\* C9: the step in which fullRebuild resumes from its read of the tree assigns the
\* filter, the exact set and the reverse map together, all three from the tree it
\* read; the step that starts a rebuild changes none of the three, and neither does
\* the step that ends one started by reloadSettings or by the rebuild timer.  So a
\* handler that runs at either await of a rebuild finds all three from before the
\* rebuild or all three from after it
RebuildIsOneStep ==
  [][\A c \in Callers :
       LET ex == extractUrlsFromTree(tree, svc.urlMatchSettings)
           same == /\ svc'.bloomFilter = svc.bloomFilter
                   /\ svc'.urlSet = svc.urlSet
                   /\ svc'.urlMap = svc.urlMap
       IN  /\ task[c].pc = "getTree" /\ task'[c].pc = "saveCache" =>
                /\ svc'.urlSet = ex.urlSet
                /\ svc'.urlMap = ex.urlMap
                /\ svc'.bloomFilter # <<>>
                /\ svc'.bloomFilter[1].itemCount = Cardinality(ex.urlSet)
                /\ \A key \in ex.urlSet : contains(svc'.bloomFilter[1], key)
           /\ task[c].pc # "getTree" /\ task'[c].pc = "getTree" => same
           /\ (/\ c \in {"reloadSettings", "rebuildTimer"}
               /\ task[c].pc = "saveCache" /\ task'[c].pc = "idle") => same]_vars

\* a handler ran at the await of saveCache, after a rebuild replaced a cache that
\* held other keys: the three structures are those of the tree the rebuild read
HandlerDuringRebuild ==
  \E c \in Callers :
    /\ task[c].pc = "saveCache"
    /\ Len(svc.pendingAdditions) > 0
    /\ Cardinality(svc.urlSet) >= 1
    /\ DOMAIN svc.urlMap = svc.urlSet
    /\ svc.bloomFilter # <<>>
    /\ svc.bloomFilter[1].itemCount = Cardinality(svc.urlSet)

Skipped(returns) ==
  \E i \in DOMAIN returns : returns[i].call = "fullRebuild" /\ returns[i].outcome = "skipped"

Finished(returns) ==
  \E i \in DOMAIN returns :
    returns[i].call = "fullRebuild" /\ returns[i].outcome \in {"done", "failed"}

\* C10: at most one fullRebuild is suspended at any time, and isBuilding is set
\* exactly while one is; a call turned away by the guard leaves the filter, the
\* exact set and the reverse map as they were, starts no read of the tree and arms
\* no timer; the guard is down in the step in which a rebuild returns or throws
OneRebuildInFlight ==
  /\ [](Cardinality(Building) <= 1 /\ (svc.isBuilding <=> Building # {}))
  /\ [][Skipped(returned') =>
          /\ svc.isBuilding /\ svc'.isBuilding
          /\ Building' = Building
          /\ \A c \in Building : task'[c] = task[c]
          /\ svc'.bloomFilter = svc.bloomFilter
          /\ svc'.urlSet = svc.urlSet
          /\ svc'.urlMap = svc.urlMap
          /\ (svc'.rebuildTimer => svc.rebuildTimer)]_vars
  /\ [][Finished(returned') => ~ svc'.isBuilding /\ Building' = {}]_vars

\* a call of fullRebuild has just been turned away while another is suspended
RebuildSkipped == Skipped(returned) /\ svc.isBuilding /\ Building # {}

\* C11: when reloadSettings returns normally, the fullRebuild it called has run to
\* its end, or the rebuild another caller started has still to read the tree, and so
\* will walk it under the policy just loaded, or every key of the exact set is
\* already a key under that policy
ReloadForcesRebuild ==
  \A i \in DOMAIN returned :
    returned[i].call = "reloadSettings" /\ returned[i].outcome = "done" /\ faults = 0 =>
      \/ \E j \in DOMAIN returned :
           returned[j].call = "fullRebuild" /\ returned[j].outcome = "done"
      \/ \E c \in Callers : task[c].pc = "getTree"
      \/ svc.urlSet \subseteq {normalize(url, svc.urlMatchSettings) : url \in Urls}

\* reloadSettings has returned after its own fullRebuild ran to the end
ReloadRebuilt ==
  \E i, j \in DOMAIN returned :
    /\ returned[i].call = "reloadSettings" /\ returned[i].outcome = "done" /\ faults = 0
    /\ returned[j].call = "fullRebuild" /\ returned[j].outcome = "done"
    /\ svc.urlMatchSettings # NoSettings

\* the record in storage has another schema version, or is more than seven days old
Rejected(record) ==
  \/ record.metadata.version # SchemaVersion
  \/ now - record.metadata.lastUpdated > SevenDays

AnswerAfterInitialize ==
  \A i \in DOMAIN returned :
    (/\ returned[i].call \in {"queryUrls", "queryUrlsWithDetails"}
     /\ returned[i].outcome = "done"
     /\ faults = 0) =>
      \A c \in Callers : ~ InInitialize(c)

\* a query that found the cache not ready has answered in the step in which the
\* initialize it called returned
AnsweredAfterOwnInitialize ==
  \E i, j \in DOMAIN returned :
    /\ i < j
    /\ returned[i].call = "initialize" /\ returned[i].outcome = "done"
    /\ returned[j].call \in {"queryUrls", "queryUrlsWithDetails"}
    /\ returned[j].outcome = "done"
    /\ faults = 0

\* C14: the step in which the tree read of a fullRebuild throws leaves the filter, the
\* exact set, the reverse map and the metadata as they were (as did the step that
\* started the rebuild; where initialize is the caller, as long as it has no queued
\* additions to replay), lowers isBuilding, and the caller of fullRebuild fails with it
FailedRebuildKeepsCache ==
  [][\A c \in Callers :
       LET same == /\ svc'.bloomFilter = svc.bloomFilter
                   /\ svc'.urlSet = svc.urlSet
                   /\ svc'.urlMap = svc.urlMap
                   /\ svc'.metadata = svc.metadata
       IN  /\ task[c].pc # "getTree" /\ task'[c].pc = "getTree" => same
           /\ task[c].pc = "getTree" /\ task'[c].pc = "idle" =>
                /\ ~ svc'.isBuilding
                /\ Failed(returned', "fullRebuild")
                /\ c \in {"initialize", "query"} => Failed(returned', "initialize")
                /\ c = "query" => Failed(returned', query.op)
                /\ c \in {"reloadSettings", "triggerRebuild"} => Failed(returned', c)
                /\ c \notin {"initialize", "query"} \/ svc.pendingAdditions = <<>> => same]_vars

\* the rebuild asked for by a TRIGGER_CACHE_REBUILD message has failed over a cache
\* that holds keys
TriggeredRebuildFailed ==
  /\ Failed(returned, "fullRebuild") /\ Failed(returned, "triggerRebuild")
  /\ svc.urlSet # {} /\ svc.bloomFilter # <<>>
  /\ ~ svc.isBuilding

\* C15: reloadSettings never fails because the rebuild it called failed
ReloadHidesRebuildFailure ==
  Failed(returned, "fullRebuild") => ~ Failed(returned, "reloadSettings")

\* the rebuild called by reloadSettings has failed
ReloadRebuildFailed ==
  /\ Failed(returned, "fullRebuild")
  /\ \E i \in DOMAIN returned : returned[i].call = "reloadSettings"

\* a query that ran initialize itself, saw it succeed and was answered, all in the
\* step just taken
RetriedAt(i, j) ==
  /\ i < j
  /\ returned[i].call = "initialize" /\ returned[i].outcome = "done"
  /\ returned[j].call \in {"queryUrls", "queryUrlsWithDetails"}
  /\ returned[j].outcome = "done"

\* C16: a failed initialize leaves isInitializing lowered, and once an initialize has
\* failed, a query that runs initialize again and sees it succeed is answered from a
\* cache that has its filter, by the exact answer of that cache
RetryAfterFailedInitialize ==
  /\ Failed(returned, "initialize") => ~ svc.isInitializing
  /\ \A i, j \in DOMAIN returned :
       initFailed /\ RetriedAt(i, j) =>
         /\ svc.bloomFilter # <<>>
         /\ ~ svc.isInitializing
         /\ returned[j].answer =
              <<answerOf(svc, [op |-> returned[j].call, urls |-> returned[j].urls])>>

\* a query was answered after the initialize it ran itself, an earlier one having failed
RetriedQueryAnswered ==
  \E i, j \in DOMAIN returned : initFailed /\ RetriedAt(i, j) /\ svc.urlSet # {}

(***************************************************************************)
(* The manager started on a damaged record: the bytes of the persisted     *)
(* filter are cut short, inside the three metadata words or after them.    *)
(***************************************************************************)
\* the first n bytes of the array
Truncated(arr, n) ==
  [length |-> n, bytes |-> [i \in {j \in 0..(n - 1) : ByteAt(arr, j) # 0} |-> ByteAt(arr, i)]]

\* lengths to cut the filter bytes to: inside the third metadata word, and just
\* after the metadata
CutLengths == {10, 12}

TruncatedRecords(nodes) ==
  LET record == cacheRecord(rebuildMemory(NewService, nodes, 1))
  IN  {<<[record EXCEPT !.bloomFilterData = Truncated(record.bloomFilterData, n)]>> :
         n \in CutLengths}

InitDamaged ==
  /\ tree \in InitialTrees \ {<<>>}
  /\ persisted \in TruncatedRecords(tree)
  /\ storedSettings = NoSettings
  /\ now = SevenDays + 1
  /\ listeners = 0
  /\ svc = NewService
  /\ task = [c \in Callers |-> IdleCall]
  /\ query = NoQuery
  /\ returned = <<>>
  /\ events = 0
  /\ faults = 0
  /\ missed = FALSE
  /\ initFailed = FALSE

\* the tables are computed, and are not empty, before the record is
InitCorrupt ==
  /\ InitMemo /\ memo.keys # <<>> /\ memo.positions # <<>>
  /\ InitDamaged
  /\ bf = <<>> /\ bfAdded = {} /\ bfRestored = FALSE /\ probe = <<>> /\ qm = NewQueryManager

SpecCorrupt == InitCorrupt /\ [][Next]_vars

\* the filter has the bit array that its size calls for
WholeFilter(f) == f.size > 0 /\ f.hashCount > 0 /\ f.bitArray.length = CeilDiv(f.size, 8)

\* the persisted filter bytes are not those of a whole filter
Damaged(record) ==
  \/ ~ filterOfBytes(record.bloomFilterData).ok
  \/ ~ WholeFilter(filterOfBytes(record.bloomFilterData).filter)

\* C17: the step of initialize that reads a valid-looking record whose filter bytes are
\* truncated neither fails initialize nor puts a filter out of these bytes into
\* memory: it goes on to a full rebuild (or finds one in flight), and whenever the
\* manager holds a filter, it is a whole one
TruncatedFilterRebuilt ==
  [][/\ \A c \in {"initialize", "query"} :
          (/\ task[c].pc = "loadCache" /\ task'[c].pc # "loadCache"
           /\ faults' = 0
           /\ persisted # <<>> /\ isValidCache(loadCache(persisted, TRUE)[1], now)
           /\ Damaged(persisted[1])) =>
             /\ ~ Failed(returned', "initialize")
             /\ svc'.bloomFilter = svc.bloomFilter
             /\ task'[c].pc = "getTree" \/ svc.isBuilding
     /\ svc'.bloomFilter # <<>> => WholeFilter(svc'.bloomFilter[1])]_vars

\* initialize has read a truncated record and is past it, with a filter in memory
TruncatedFilterLoaded ==
  /\ persisted # <<>> /\ Damaged(persisted[1])
  /\ \E c \in {"initialize", "query"} : task[c].pc = "mapTree"
  /\ svc.bloomFilter # <<>>

(***************************************************************************)
(* StorageService.loadCache on whatever value the storage holds.  A        *)
(* JavaScript value is a record of its type tag t and its payload v; the   *)
(* fields of an object are the fields of the record v.                     *)
(***************************************************************************)
Undefined == [t |-> "undefined"]
Null      == [t |-> "null"]
Num(n)    == [t |-> "number", number |-> n]
Str(s)    == [t |-> "string", string |-> s]
Arr(a)    == [t |-> "array", array |-> a]
Obj(o)    == [t |-> "object", object |-> o]

typeof(x) == IF x.t \in {"null", "array", "object"} THEN "object" ELSE x.t

\* ToBoolean(x)
truthy(x) ==
  /\ x.t \notin {"undefined", "null"}
  /\ x.t = "number" => x.number # 0
  /\ x.t = "string" => x.string # ""

\* x[name], for an x that is neither null nor undefined
Field(x, name) ==
  IF x.t = "object" /\ name \in DOMAIN x.object THEN x.object[name] ELSE Undefined

validateCacheStructure(data) ==
  /\ truthy(data)
  /\ typeof(data) = "object"
  /\ typeof(Field(data, "bloomFilterData")) = "string"
  /\ Field(data, "urls").t = "array"
  /\ truthy(Field(data, "metadata"))
  /\ typeof(Field(Field(data, "metadata"), "version")) = "number"
  /\ typeof(Field(Field(data, "metadata"), "bookmarkCount")) = "number"
  /\ typeof(Field(Field(data, "metadata"), "lastUpdated")) = "number"

\* what a block of code came to: a thrown error, or a returned value (nullable)
Thrown == [threw |-> TRUE, value |-> <<>>]
Returned(value) == [threw |-> FALSE, value |-> value]

\* the try block of loadCache; got is FALSE when chrome.storage.local.get rejects
loadCacheTry(stored, got) ==
  IF ~ got THEN Thrown
  ELSE IF ~ truthy(stored) THEN Returned(<<>>)
  ELSE IF ~ validateCacheStructure(stored) THEN Returned(<<>>)
  ELSE IF ~ atob(Field(stored, "bloomFilterData").string).ok THEN Thrown
  ELSE Returned(<<[bloomFilterData |-> atob(Field(stored, "bloomFilterData").string).bytes,
                   urlSet          |-> Range(Field(stored, "urls").array),
                   metadata        |-> Field(stored, "metadata")]>>)

\* a loadCache without its catch block
loadCacheUncaught(stored, got) == loadCacheTry(stored, got)

\* StorageService.loadCache: the catch block returns null
loadCacheStored(stored, got) ==
  IF loadCacheTry(stored, got).threw THEN Returned(<<>>) ELSE loadCacheTry(stored, got)

StoredMetadata ==
  {Undefined, Null, Num(5)} \cup
  {Obj([version |-> a, bookmarkCount |-> b, lastUpdated |-> c]) :
     a \in {Num(1), Str("1"), Undefined}, b \in {Num(1), Str("1")}, c \in {Num(1), Null}}

StoredValues ==
  {Undefined, Null, Num(0), Str("x"), Arr(<<>>)} \cup
  {Obj([bloomFilterData |-> d, urls |-> u, metadata |-> m]) :
     d \in {Str("QUJD"), Str(""), Str("A"), Str("!!!!"), Num(7), Undefined},
     u \in {Arr(<<>>), Arr(<<Str("http://a.com/")>>), Str("x"), Undefined},
     m \in StoredMetadata}

\* a service that nothing has been called on yet, with nothing in storage
InitIdle ==
  /\ tree = <<>>
  /\ persisted = <<>>
  /\ storedSettings = NoSettings
  /\ now = SevenDays + 1
  /\ listeners = 0
  /\ svc = NewService
  /\ task = [c \in Callers |-> IdleCall]
  /\ query = NoQuery
  /\ returned = <<>>
  /\ events = 0
  /\ faults = 0
  /\ missed = FALSE
  /\ initFailed = FALSE
  /\ bf = <<>> /\ bfAdded = {} /\ bfRestored = FALSE
  /\ qm = NewQueryManager

allButProbe == <<tree, storedSettings, persisted, now, listeners, svc, task, query, returned,
                 events, faults, missed, bf, bfAdded, bfRestored, memo, initFailed, qm>>

InitLoad ==
  /\ InitMemo
  /\ InitIdle
  /\ probe \in {<<[stored |-> v, got |-> g, result |-> <<>>]>> : v \in StoredValues, g \in BOOLEAN}

\* StorageService.loadCache() is called and returns
LoadCacheCalled ==
  /\ probe # <<>>
  /\ probe[1].result = <<>>
  /\ probe' = <<[probe[1] EXCEPT !.result = <<loadCacheStored(probe[1].stored, probe[1].got)>>]>>
  /\ UNCHANGED allButProbe

SpecLoad == InitLoad /\ [][LoadCacheCalled]_vars

\* the cases the stored value is turned away in: the key is missing, a field has the
\* wrong type, the filter text does not decode
KeyMissing(stored) == stored = Undefined

IllTyped(stored) ==
  \/ Field(stored, "bloomFilterData").t # "string"
  \/ Field(stored, "urls").t # "array"
  \/ \E k \in {"version", "bookmarkCount", "lastUpdated"} :
       Field(Field(stored, "metadata"), k).t # "number"

Undecodable(stored) ==
  /\ Field(stored, "bloomFilterData").t = "string"
  /\ ~ atob(Field(stored, "bloomFilterData").string).ok

\* C18: loadCache never throws, and returns null when the key is missing, when a field
\* of the stored value has the wrong type, when the read fails and when the filter
\* text does not decode
LoadCacheNeverThrows ==
  \A i \in DOMAIN probe :
    probe[i].result # <<>> =>
      LET stored == probe[i].stored
          result == probe[i].result[1]
      IN  /\ ~ result.threw
          /\ (\/ ~ probe[i].got
              \/ KeyMissing(stored)
              \/ IllTyped(stored)
              \/ Undecodable(stored)) => result.value = <<>>

\* loadCache has returned null for a well-typed record whose filter text does not decode
UndecodableTurnedAway ==
  /\ probe # <<>>
  /\ probe[1].result # <<>>
  /\ probe[1].got /\ ~ IllTyped(probe[1].stored) /\ Undecodable(probe[1].stored)
  /\ probe[1].result[1] = Returned(<<>>)

(***************************************************************************)
(* StorageService.saveCache and loadCache on their own: saves that end in  *)
(* each way, each followed by a load.                                      *)
(***************************************************************************)
SavedTrees == {<<"http://a.com/">>, <<"http://b.com/x">>, <<"http://a.com/", "http://b.com/x">>}

\* the records the manager hands to saveCache: those of a rebuild of a tree on a day
SaveInputs == {cacheRecord(rebuildMemory(NewService, nodes, day)) :
                 nodes \in SavedTrees, day \in 1..MaxNow}

InitSave ==
  /\ InitMemo /\ memo.keys # <<>> /\ memo.positions # <<>>
  /\ InitIdle
  /\ probe = <<[stored |-> <<>>, lastSaved |-> <<>>, written |-> "",
                notified |-> FALSE, threw |-> FALSE, loaded |-> <<>>]>>

\* StorageService.saveCache(cache) is called and returns or throws
SaveCacheCalled ==
  \E record \in SaveInputs, written \in {"ok", "quota", "error"} :
    LET saved == saveCache(probe[1].stored, record, written)
    IN  /\ probe' = <<[stored    |-> saved.stored,
                       lastSaved |-> IF written = "ok" THEN <<record>> ELSE probe[1].lastSaved,
                       written   |-> written,
                       notified  |-> saved.notified,
                       threw     |-> saved.threw,
                       loaded    |-> <<>>]>>
        /\ UNCHANGED allButProbe

\* StorageService.loadCache() is called after a save and returns
LoadCacheAfterSave ==
  /\ probe[1].written # ""
  /\ probe[1].loaded = <<>>
  /\ probe' = <<[probe[1] EXCEPT !.loaded = <<loadCache(probe[1].stored, TRUE)>>]>>
  /\ UNCHANGED allButProbe

NextSave == SaveCacheCalled \/ LoadCacheAfterSave

SpecSave == InitSave /\ [][NextSave]_vars

\* the cache is the one that loadCache makes of the record
CacheOf(cache, record) ==
  /\ cache.bloomFilterData = record.bloomFilterData
  /\ cache.urlSet = {record.urls[i] : i \in DOMAIN record.urls}
  /\ cache.metadata = record.metadata

\* C19: a save that the storage turns away for its quota raises the notification and
\* throws to its caller (a save turned away for another reason throws and raises
\* none), the stored record is still the one of the last save that succeeded, and a
\* loadCache after it returns that record (null when there was none)
QuotaFailureSurfaced ==
  \A i \in DOMAIN probe :
    /\ probe[i].written = "quota" =>
         /\ probe[i].notified /\ probe[i].threw
         /\ probe[i].stored = probe[i].lastSaved
         /\ probe[i].loaded # <<>> =>
              IF probe[i].lastSaved = <<>> THEN probe[i].loaded[1] = <<>>
              ELSE /\ probe[i].loaded[1] # <<>>
                   /\ CacheOf(probe[i].loaded[1][1], probe[i].lastSaved[1])
    /\ probe[i].written = "error" => ~ probe[i].notified /\ probe[i].threw

\* a save was turned away for the quota after one that succeeded, and the record has
\* been loaded since
LoadedAfterQuotaFailure ==
  /\ probe # <<>>
  /\ probe[1].written = "quota"
  /\ probe[1].lastSaved # <<>>
  /\ probe[1].loaded # <<>>

(***************************************************************************)
(* normalizeUrl on its own: applied to a URL, then to its own result,      *)
(* under each combination of the six flags.                                *)
(***************************************************************************)
AllSettings ==
  [ignoreProtocol : BOOLEAN, ignoreTrailingSlash : BOOLEAN, ignoreCase : BOOLEAN,
   ignoreWww : BOOLEAN, ignoreHash : BOOLEAN, ignoreDiscoursePostNumber : BOOLEAN]

NormalizeInputs ==
  Urls \cup {"http://www.www.a.com/", "HTTP://WWW.A.com:80/x/#h", "not a url"}

InitNorm ==
  /\ InitMemo
  /\ InitIdle
  /\ probe \in {<<[url |-> u, settings |-> s, once |-> <<>>, twice |-> <<>>]>> :
                  u \in NormalizeInputs, s \in AllSettings}

\* normalizeUrl(url) is called under the settings
NormalizeUrlCalled ==
  /\ probe[1].once = <<>>
  /\ probe' = <<[probe[1] EXCEPT !.once = <<normalizeUrl(probe[1].url, probe[1].settings)>>]>>
  /\ UNCHANGED allButProbe

\* normalizeUrl is called on what it returned
NormalizeUrlCalledAgain ==
  /\ probe[1].once # <<>>
  /\ probe[1].twice = <<>>
  /\ probe' = <<[probe[1] EXCEPT !.twice = <<normalizeUrl(probe[1].once[1], probe[1].settings)>>]>>
  /\ UNCHANGED allButProbe

NextNorm == NormalizeUrlCalled \/ NormalizeUrlCalledAgain

SpecNorm == InitNorm /\ [][NextNorm]_vars

\* C20: normalizeUrl applied to its own result returns that result, for every URL and
\* every combination of the six flags
NormalizeIdempotent ==
  \A i \in DOMAIN probe : probe[i].twice # <<>> => probe[i].twice = probe[i].once

\* normalizeUrl has been applied twice to a URL that it changes, with ignoreWww set
NormalizedTwice ==
  /\ probe # <<>>
  /\ probe[1].twice # <<>>
  /\ probe[1].settings.ignoreWww
  /\ probe[1].once[1] # probe[1].url

(***************************************************************************)
(* normalizeUrl on two URLs under one policy: URLs that differ in letter   *)
(* case only, and URLs that differ in http against https only.             *)
(***************************************************************************)
CasePairs ==
  {<<"HTTP://Example.com/Path", "http://example.com/path">>,
   <<"http://WWW.a.com/X#H", "http://www.a.com/x#h">>,
   <<"http://a.com/T/Topic/1/2", "http://a.com/t/topic/1/2">>,
   <<"Not A Url", "not a url">>}

SchemePairs ==
  {<<"http://a.com", "https://a.com">>,
   <<"http://a.com:80/x/", "https://a.com:80/x/">>,
   <<"http://www.a.com/#h", "https://www.a.com/#h">>}

InitPairs ==
  /\ InitMemo
  /\ InitIdle
  /\ probe \in {<<[a |-> pair[1], b |-> pair[2], settings |-> s, keys |-> <<>>]>> :
                  pair \in CasePairs \cup SchemePairs, s \in AllSettings}

\* normalizeUrl is called on each of the two URLs under the settings
NormalizeBoth ==
  /\ probe[1].keys = <<>>
  /\ probe' = <<[probe[1] EXCEPT !.keys = <<normalizeUrl(probe[1].a, probe[1].settings),
                                           normalizeUrl(probe[1].b, probe[1].settings)>>]>>
  /\ UNCHANGED allButProbe

SpecPairs == InitPairs /\ [][NormalizeBoth]_vars

\* C21: with ignoreCase set, two URLs that differ in letter case only have the same
\* key, whether they parse or not
SameKeyUnderIgnoreCase ==
  \A i \in DOMAIN probe :
    (/\ probe[i].keys # <<>>
     /\ probe[i].settings.ignoreCase
     /\ toLowerCase(probe[i].a) = toLowerCase(probe[i].b)) =>
       probe[i].keys[1] = probe[i].keys[2]

\* two URLs that differ in case only, and parse, have been normalized with ignoreCase
\* set and have one key, which has no upper-case letter
CaseFolded ==
  /\ probe # <<>>
  /\ probe[1].keys # <<>>
  /\ probe[1].settings.ignoreCase
  /\ probe[1].a = "HTTP://Example.com/Path"
  /\ probe[1].keys = <<"http://example.com/path", "http://example.com/path">>

\* b is a with https for http
SchemeTwin(a, b) ==
  startsWith(a, "http://") /\ b = "https://" \o SubSeq(a, 8, Len(a))

\* C22: with ignoreProtocol off, whatever the other flags, two URLs that differ in
\* http against https only have different keys
SchemeKeptApart ==
  \A i \in DOMAIN probe :
    (/\ probe[i].keys # <<>>
     /\ ~ probe[i].settings.ignoreProtocol
     /\ SchemeTwin(probe[i].a, probe[i].b)) =>
       probe[i].keys[1] # probe[i].keys[2]

\* http://a.com and https://a.com have been normalized with every flag off
DefaultPolicyKeys ==
  /\ probe # <<>>
  /\ probe[1].keys # <<>>
  /\ probe[1].settings = NoSettings
  /\ probe[1].a = "http://a.com" /\ probe[1].b = "https://a.com"
  /\ probe[1].keys = <<"http://a.com/", "https://a.com/">>

(***************************************************************************)
(* isValidCache on its own, with the cacheDays that the options page has   *)
(* saved in the settings.                                                  *)
(***************************************************************************)
MinCacheDays == 1
MaxCacheDays == 30

\* a record of one bookmark under the current schema, last updated on the day
RecordOfDay(day) ==
  [bloomFilterData |-> Uint8Array(0),
   urlSet          |-> {"http://a.com/"},
   metadata        |-> [version |-> SchemaVersion, bookmarkCount |-> 1, lastUpdated |-> day]]

InitValid ==
  /\ InitMemo
  /\ InitIdle
  /\ probe \in {<<[cacheDays |-> d, cache |-> RecordOfDay(day), valid |-> <<>>]>> :
                  d \in MinCacheDays..MaxCacheDays, day \in 0..(SevenDays + 1)}

\* isValidCache(cache) is called and returns
IsValidCacheCalled ==
  /\ probe[1].valid = <<>>
  /\ probe' = <<[probe[1] EXCEPT !.valid = <<isValidCache(probe[1].cache, now)>>]>>
  /\ UNCHANGED allButProbe

SpecValid == InitValid /\ [][IsValidCacheCalled]_vars

\* C23: a record older than the configured cacheDays is rejected and a record younger
\* than it is accepted
WindowIsCacheDays ==
  \A i \in DOMAIN probe :
    probe[i].valid # <<>> =>
      LET age == now - probe[i].cache.metadata.lastUpdated
      IN  /\ age > probe[i].cacheDays => ~ probe[i].valid[1]
          /\ age < probe[i].cacheDays => probe[i].valid[1]

\* a record older than the configured cacheDays has been validated
OlderThanCacheDays ==
  /\ probe # <<>>
  /\ probe[1].valid # <<>>
  /\ now - probe[1].cache.metadata.lastUpdated > probe[1].cacheDays

\* C25: at most one save timeout and at most one rebuild timeout are pending, never
\* both, and each timer field holds an id exactly when its timeout is pending
OneTimerPending ==
  /\ svc.timeouts.save + svc.timeouts.rebuild <= 1
  /\ svc.saveTimer <=> svc.timeouts.save = 1
  /\ svc.rebuildTimer <=> svc.timeouts.rebuild = 1

\* a rebuild timer is pending, no save timer is, and the exact set holds a key that
\* the persisted record lacks: the save that its incremental add asked for was
\* cancelled or never scheduled
RebuildSupersedesSave ==
  /\ svc.timeouts.rebuild = 1
  /\ svc.timeouts.save = 0
  /\ persisted # <<>>
  /\ \E key \in svc.urlSet : \A i \in DOMAIN persisted[1].urls : persisted[1].urls[i] # key

\* C26: a URL is appended to pendingAdditions only in a step taken while
\* isInitializing is true
QueuedOnlyWhileInitializing ==
  [][Len(svc'.pendingAdditions) > Len(svc.pendingAdditions) => svc.isInitializing]_vars

\* no initialization is in flight, a rebuild is, and a created bookmark waits in the
\* queue
QueuedDuringRebuild ==
  /\ \A c \in Callers : ~InInitialize(c)
  /\ ~svc.isInitializing
  /\ svc.isBuilding
  /\ svc.pendingAdditions # <<>>

\* C27: every URL that leaves pendingAdditions has been applied: after the step its
\* key is in the exact set
QueuedUrlsReplayed ==
  [][\A i \in DOMAIN svc.pendingAdditions :
       LET url == svc.pendingAdditions[i]
       IN  url \notin Range(svc'.pendingAdditions)
             => normalize(url, svc'.urlMatchSettings) \in svc'.urlSet]_vars

\* an initialization waits for its settings while a rebuild is in flight and a created
\* bookmark is in the queue: the reset of the queue in initialize comes next
QueuedBeforeReset ==
  /\ \E c \in Callers : task[c].pc = "settings" /\ c # "reloadSettings"
  /\ svc.isBuilding
  /\ svc.pendingAdditions # <<>>

\* the bookmark that the step creates, if it creates one and a listener hears it
Created == IF listeners > 0 /\ Len(tree') = Len(tree) + 1
           THEN Range(tree') \ Range(tree) ELSE {}

\* C28: a created bookmark applied outside initialization and rebuild changes nothing
\* of the instance when its key is in the exact set; otherwise it puts the key in the
\* set, in the map with the URL as created and in the filter when there is one, adds
\* one to bookmarkCount, stamps lastUpdated, leaves the rebuild timer alone and leaves
\* a save timer pending unless a rebuild timer is
IncrementalAddEffect ==
  [][\A url \in Created :
       LET key == normalize(url, svc.urlMatchSettings)
       IN  ~svc.isInitializing /\ ~svc.isBuilding =>
             IF key \in svc.urlSet THEN svc' = svc
             ELSE /\ svc'.urlSet = svc.urlSet \cup {key}
                  /\ DOMAIN svc'.urlMap = DOMAIN svc.urlMap \cup {key}
                  /\ svc'.urlMap[key] = url
                  /\ \A k \in DOMAIN svc.urlMap \ {key} : svc'.urlMap[k] = svc.urlMap[k]
                  /\ svc.bloomFilter = <<>> => svc'.bloomFilter = <<>>
                  /\ svc.bloomFilter # <<>> =>
                       /\ svc'.bloomFilter # <<>>
                       /\ contains(svc'.bloomFilter[1], key)
                       /\ \A k \in svc.urlSet : contains(svc'.bloomFilter[1], k)
                  /\ svc'.metadata.bookmarkCount = svc.metadata.bookmarkCount + 1
                  /\ svc'.metadata.lastUpdated = now
                  /\ svc'.metadata.version = svc.metadata.version
                  /\ svc'.rebuildTimer = svc.rebuildTimer
                  /\ svc'.timeouts.rebuild = svc.timeouts.rebuild
                  /\ svc'.saveTimer = ~svc.rebuildTimer
                  /\ svc'.timeouts.save = IF svc.rebuildTimer THEN 0 ELSE 1
                  /\ svc'.pendingAdditions = svc.pendingAdditions
                  /\ svc'.urlMatchSettings = svc.urlMatchSettings
                  /\ ~svc'.isInitializing /\ ~svc'.isBuilding]_vars

\* a save timer is pending and the filter answers yes for a key of the exact set that
\* the persisted record lacks: an incremental add of a new key has been applied
IncrementalAddApplied ==
  /\ svc.saveTimer
  /\ svc.bloomFilter # <<>>
  /\ persisted # <<>>
  /\ \E key \in svc.urlSet :
       /\ \A i \in DOMAIN persisted[1].urls : persisted[1].urls[i] # key
       /\ contains(svc.bloomFilter[1], key)

\* the step deletes a bookmark or edits the URL of one, and a listener hears it
RemovedOrChanged ==
  /\ listeners > 0
  /\ \/ Len(tree') < Len(tree)
     \/ Len(tree') = Len(tree) /\ Range(tree') # Range(tree)

\* C29: a bookmark-removed or URL-changed event leaves the exact set, the map, the
\* filter, the metadata and the queue as they were; after it one rebuild timer and no
\* save timer is pending
RemovalOnlySchedulesRebuild ==
  [][RemovedOrChanged =>
       svc' = [svc EXCEPT !.saveTimer = FALSE, !.rebuildTimer = TRUE,
                          !.timeouts = [save |-> 0, rebuild |-> 1]]]_vars

\* a rebuild timer is pending, no save timer is, and the exact set and the filter still
\* hold the key of a URL that is no longer bookmarked
RemovedKeyAwaitsRebuild ==
  /\ svc.timeouts.rebuild = 1
  /\ ~svc.saveTimer
  /\ svc.bloomFilter # <<>>
  /\ \E key \in svc.urlSet :
       /\ contains(svc.bloomFilter[1], key)
       /\ \A i \in DOMAIN tree : normalize(tree[i], svc.urlMatchSettings) # key

\* initialize() awaits loadUrlMatchSettings() and no other call is in flight
AwaitingSettingsAlone ==
  /\ task["initialize"].pc = "settings"
  /\ \A c \in Callers \ {"initialize"} : task[c].pc = "idle"

\* C30: a bookmark created while initialize() awaits loadUrlMatchSettings() is not
\* normalized: it is put in the queue and the exact set is left as it was
NoAddBeforeSettings ==
  [][AwaitingSettingsAlone /\ Created # {} =>
       /\ svc'.urlSet = svc.urlSet
       /\ Len(svc'.pendingAdditions) = Len(svc.pendingAdditions) + 1]_vars

\* initialize() still awaits the policy, the stored policy is not the one in memory,
\* and the exact set already holds a key
KeyBeforeSettings ==
  /\ AwaitingSettingsAlone
  /\ storedSettings # svc.urlMatchSettings
  /\ svc.urlSet # {}

\* C31: with a filter in place, every key of the exact set that the map resolves is
\* the key that the policy in memory gives to its URL, so a query or an add
\* normalizes under the policy the keys were made with
KeysUnderPolicyInMemory ==
  svc.bloomFilter # <<>> =>
    \A key \in svc.urlSet \cap DOMAIN svc.urlMap :
      normalize(svc.urlMap[key], svc.urlMatchSettings) = key

\* reloadSettings() has assigned another policy and its rebuild waits for the tree,
\* while the exact set still holds the keys made under the earlier policy
ReloadedBeforeRebuild ==
  /\ task["reloadSettings"].pc = "getTree"
  /\ svc.bloomFilter # <<>>
  /\ \E key \in svc.urlSet \cap DOMAIN svc.urlMap :
       normalize(svc.urlMap[key], svc.urlMatchSettings) # key

\* a call of this name is among the returns, and it returned normally
Done(returns, call) ==
  \E i \in DOMAIN returns : returns[i].call = call /\ returns[i].outcome = "done"

\* C32: in the step in which fullRebuild returns without error the stored record is
\* the one of the rebuilt state: its URLs are the exact set, its bytes are those of the
\* filter, its version is 1 and its bookmarkCount is the size of the exact set
RebuildDoneIsPersisted ==
  [][Done(returned', "fullRebuild") =>
       /\ persisted' # <<>>
       /\ Range(persisted'[1].urls) = svc.urlSet
       /\ persisted'[1].bloomFilterData = cacheRecord(svc).bloomFilterData
       /\ persisted'[1].metadata.version = SchemaVersion
       /\ persisted'[1].metadata.bookmarkCount = Cardinality(svc.urlSet)]_vars

\* fullRebuild has just returned without error over a tree with bookmarks, and storage
\* holds no record
RebuildDoneNothingStored ==
  /\ Done(returned, "fullRebuild")
  /\ svc.urlSet # {}
  /\ ~svc.isBuilding
  /\ persisted = <<>>

\* the slots whose rebuild is not part of an initialization
RebuildCallers == {"rebuildTimer", "triggerRebuild", "reloadSettings"}

\* C33: when a rebuild that is not part of an initialization completes while no
\* initialization is in flight, the key of every queued URL that is still bookmarked
\* is in the exact set
CreatedDuringRebuildKept ==
  [][\A c \in RebuildCallers :
       /\ task[c].pc = "saveCache" /\ task'[c].pc = "idle"
       /\ \A d \in Callers : ~InInitialize(d)
       => \A i \in DOMAIN svc.pendingAdditions :
            svc.pendingAdditions[i] \in Range(tree)
              => normalize(svc.pendingAdditions[i], svc'.urlMatchSettings) \in svc'.urlSet]_vars

\* a rebuild that is not part of an initialization has replaced the structures and
\* awaits its save, no initialization is in flight, and a bookmark created since is in
\* the queue and not in the exact set
CreatedWhileRebuildSaves ==
  /\ \E c \in RebuildCallers : task[c].pc = "saveCache"
  /\ \A d \in Callers : ~InInitialize(d)
  /\ \E i \in DOMAIN svc.pendingAdditions :
       /\ svc.pendingAdditions[i] \in Range(tree)
       /\ normalize(svc.pendingAdditions[i], svc.urlMatchSettings) \notin svc.urlSet

(***************************************************************************)
(* The ready service under fair scheduling: timers fire and awaited        *)
(* operations settle.                                                      *)
(***************************************************************************)

\* the service as initialize() leaves it over one bookmark, with its record stored;
\* and the same once that bookmark has been deleted, with the rebuild timer pending
InitReady ==
  /\ InitMemo
  /\ memo.keys # <<>> /\ memo.positions # <<>>
  /\ LET ready == rebuildMemory(NewService, <<"http://a.com/">>, SevenDays + 1)
     IN  /\ persisted = <<cacheRecord(ready)>>
         /\ \/ tree = <<"http://a.com/">> /\ svc = ready
            \/ tree = <<>> /\ svc = debouncedRebuild(ready)
  /\ storedSettings = NoSettings
  /\ now = SevenDays + 1
  /\ listeners = 1
  /\ task = [c \in Callers |-> IdleCall]
  /\ query = NoQuery
  /\ returned = <<>>
  /\ events = 0
  /\ faults = 0
  /\ missed = FALSE
  /\ initFailed = FALSE
  /\ bf = <<>> /\ bfAdded = {} /\ bfRestored = FALSE
  /\ qm = NewQueryManager
  /\ probe = <<>>

NextReady ==
  \/ TriggerRebuild
  \/ \E c \in {"rebuildTimer", "triggerRebuild"} : TreeRead(c)
  \/ \E c \in {"rebuildTimer", "triggerRebuild"} : SaveDone(c)
  \/ RebuildTimerFires
  \/ SaveTimerFires
  \/ BookmarkCreated
  \/ BookmarkRemoved
  \/ BookmarkChanged
  \/ BookmarkMoved

\* TreeRead(c) is enabled exactly while slot c awaits the tree and every TreeRead(c)
\* step leaves that position, so weak fairness of TreeRead(c) is the condition that
\* slot c is again and again not awaiting the tree
SpecReady ==
  /\ InitReady
  /\ [][NextReady]_vars
  /\ WF_vars(RebuildTimerFires)
  /\ WF_vars(SaveTimerFires)
  /\ \A c \in {"rebuildTimer", "triggerRebuild"} : WF_vars(SaveDone(c))
  /\ \A c \in {"rebuildTimer", "triggerRebuild"} : []<>(task[c].pc # "getTree")

\* the stored record lists the key
Stored(key) == persisted # <<>> /\ key \in Range(persisted[1].urls)

\* C34: again and again every key of the exact set is in the stored record; once the
\* events have ended, every key that an incremental add put in memory is persisted
AddedKeyPersisted == []<>(\A key \in svc.urlSet : Stored(key))

\* the rebuild that a deletion scheduled has just failed, nothing is pending or in
\* flight, and the exact set holds a key that the stored record lacks
AddedKeyStranded ==
  /\ Failed(returned, "fullRebuild")
  /\ Quiescent
  /\ \E key \in svc.urlSet : ~Stored(key)

\* C35: bookmarkCount is the number of keys in the exact set, in memory and in the
\* stored record
CountIsSetSize ==
  /\ svc.metadata.bookmarkCount = Cardinality(svc.urlSet)
  /\ persisted # <<>> =>
       persisted[1].metadata.bookmarkCount = Cardinality(Range(persisted[1].urls))

\* an incremental add has brought the exact set to two keys while the stored record
\* lists one, and its save is pending
CountedAfterAdd ==
  /\ svc.saveTimer
  /\ persisted # <<>>
  /\ Cardinality(svc.urlSet) = 2
  /\ Cardinality(Range(persisted[1].urls)) = 1

\* C36: once the first initialization has returned without error and a filter is in
\* place, no query starts another initialization
ReadyIsStable ==
  [][Initialized /\ svc.bloomFilter # <<>>
       => ~(task["query"].pc = "idle" /\ task'["query"].pc = "settings")]_vars

\* initialize() has returned without error over a tree without URLs, and a query has
\* started the initialization again: the listeners are registered twice
InitializedAgain ==
  /\ ~initFailed
  /\ listeners = MaxListeners + 1
  /\ task["query"].pc = "settings"
  /\ svc.bloomFilter # <<>>
  /\ svc.urlSet = {}
  /\ tree = <<>>

\* C37: a step that adds a key the filter was given before (the keys added stay the
\* same) leaves the bits, the item count and the text of serialize() as they were
AddIsIdempotent ==
  [][bf # <<>> /\ bfAdded # {} /\ bfAdded' = bfAdded =>
       /\ bf'[1].bitArray = bf[1].bitArray
       /\ bf'[1].itemCount = bf[1].itemCount
       /\ serialize(bf'[1]) = serialize(bf[1])]_vars

\* a key has been added a second time: the filter counts more items than it was given
\* keys
KeyAddedTwice ==
  /\ bf # <<>>
  /\ bfAdded # {}
  /\ bf[1].itemCount > Cardinality(bfAdded)

(***************************************************************************)
(* getHashPositions on its own: every key of the model in every filter     *)
(* shape of the model.                                                     *)
(***************************************************************************)
InitPositions ==
  /\ InitMemo
  /\ InitIdle
  /\ probe \in {<<[item |-> e[1], size |-> e[2][1], hashCount |-> e[2][2],
                   hashes |-> <<>>, positions |-> <<>>]>> :
                  e \in (NormalizedKeys \cup FilterKeys) \X FilterShapes}

\* this.hash(item, 0) and this.murmurHash(item, 1)
HashCalled ==
  /\ probe[1].hashes = <<>>
  /\ probe' = <<[probe[1] EXCEPT !.hashes = <<hash(probe[1].item, 0, probe[1].size),
                                              murmurHash(probe[1].item, 1, probe[1].size)>>]>>
  /\ UNCHANGED allButProbe

\* this.getHashPositions(item)
GetHashPositionsCalled ==
  /\ probe[1].hashes # <<>>
  /\ probe[1].positions = <<>>
  /\ probe' = <<[probe[1] EXCEPT !.positions =
                   <<positionsOf(probe[1].item, probe[1].size, probe[1].hashCount)>>]>>
  /\ UNCHANGED allButProbe

NextPositions == HashCalled \/ GetHashPositionsCalled

SpecPositions == InitPositions /\ [][NextPositions]_vars

\* C38: getHashPositions returns hashCount positions (hash1 + i * hash2) mod size,
\* each of them a bit of the array, and no two of them the same
PositionsDistinct ==
  probe # <<>> /\ probe[1].positions # <<>> =>
    LET p == probe[1].positions[1]
        h == probe[1].hashes
    IN  /\ Len(p) = probe[1].hashCount
        /\ \A i \in DOMAIN p :
             /\ p[i] = (h[1] + (i - 1) * h[2]) % probe[1].size
             /\ p[i] >= 0 /\ p[i] < probe[1].size
             /\ p[i] \div 8 < CeilDiv(probe[1].size, 8)
        /\ \A i, j \in DOMAIN p : i # j => p[i] # p[j]

\* getHashPositions has returned the same position twice
PositionRepeated ==
  /\ probe # <<>> /\ probe[1].positions # <<>>
  /\ \E i, j \in DOMAIN probe[1].positions[1] :
       i < j /\ probe[1].positions[1][i] = probe[1].positions[1][j]

\* C39: a bookmark-moved event that a listener hears leaves the exact set, the map,
\* the filter, bookmarkCount and every other field as they were, except that
\* lastUpdated is the time of the event and a save timer is pending unless a rebuild
\* timer is
MoveOnlyStampsAndSaves ==
  [][listeners > 0 /\ tree' # tree /\ Range(tree') = Range(tree) =>
       /\ svc'.urlSet = svc.urlSet
       /\ svc'.urlMap = svc.urlMap
       /\ svc'.bloomFilter = svc.bloomFilter
       /\ svc'.metadata = [svc.metadata EXCEPT !.lastUpdated = now]
       /\ svc'.rebuildTimer = svc.rebuildTimer
       /\ svc'.timeouts.rebuild = svc.timeouts.rebuild
       /\ svc'.saveTimer = ~svc.rebuildTimer
       /\ svc'.timeouts.save = IF svc.rebuildTimer THEN 0 ELSE 1
       /\ svc'.pendingAdditions = svc.pendingAdditions
       /\ svc'.urlMatchSettings = svc.urlMatchSettings
       /\ svc'.isInitializing = svc.isInitializing
       /\ svc'.isBuilding = svc.isBuilding]_vars

\* a save timer is pending although the exact set holds no key: the save was asked
\* for by a move
SaveAskedByMove ==
  /\ svc.saveTimer
  /\ svc.urlSet = {}
  /\ Len(tree) = 2

(***************************************************************************)
(* The content script's QueryManager.  qm.loops lists the processQueue     *)
(* calls that are past their guard, each with the await it is suspended at *)
(* and the batch it has sent; events counts the calls of queryUrls and     *)
(* clearQueue, faults the messages that failed.                            *)
(***************************************************************************)
BATCH_SIZE == 50

MaxCalls == 2
MaxFailures == 2

\* n links harvested from a page
Links(n) == [i \in 1..n |-> IF i % 2 = 1 THEN "http://a.com/" ELSE "http://b.com/x"]

\* the arrays queryUrls is called with
QueryBatches == {Links(1), Links(BATCH_SIZE), Links(BATCH_SIZE + 1), Links((2 * BATCH_SIZE) + 1)}

\* processQueue leaves its loop: the finally block
leaveLoop(q, i) ==
  [q EXCEPT !.isQuerying = FALSE,
            !.loops = SubSeq(@, 1, i - 1) \o SubSeq(@, i + 1, Len(@))]

\* loop i at the test of its while: splice(0, BATCH_SIZE) and sendQuery(batch) up to
\* the await of sendMessage, or the end of the loop
nextBatch(q, i) ==
  IF Len(q.queryQueue) > 0
  THEN LET n == IF Len(q.queryQueue) < BATCH_SIZE THEN Len(q.queryQueue) ELSE BATCH_SIZE
       IN  [q EXCEPT !.queryQueue = SubSeq(@, n + 1, Len(@)),
                     !.loops[i] = [pc |-> "sendMessage", batch |-> SubSeq(q.queryQueue, 1, n)]]
  ELSE leaveLoop(q, i)

\* a processQueue without the isQuerying guard
processQueueUnguarded(q) ==
  IF Len(q.queryQueue) = 0 THEN q
  ELSE nextBatch([q EXCEPT !.isQuerying = TRUE,
                           !.loops = Append(@, [pc |-> "while", batch |-> <<>>])],
                 Len(q.loops) + 1)

\* processQueue(), to its first await or its return
processQueue(q) ==
  IF q.isQuerying \/ Len(q.queryQueue) = 0 THEN q
  ELSE nextBatch([q EXCEPT !.isQuerying = TRUE,
                           !.loops = Append(@, [pc |-> "while", batch |-> <<>>])],
                 Len(q.loops) + 1)

\* queryUrls(urls)
queryUrls(q, urls) == processQueue([q EXCEPT !.queryQueue = @ \o urls])

\* sendQuery resumes in loop i with the answer, or with the error it catches by putting
\* the batch back at the end of the queue; then processQueue waits if URLs remain
afterSendQuery(q, i, ok) ==
  LET q1 == IF ok THEN q ELSE [q EXCEPT !.queryQueue = @ \o q.loops[i].batch]
  IN  IF Len(q1.queryQueue) > 0
      THEN [q1 EXCEPT !.loops[i] = [pc |-> "delay", batch |-> <<>>]]
      ELSE leaveLoop(q1, i)

qmOnly == <<tree, storedSettings, persisted, now, listeners, svc, task, query, returned,
            missed, bf, bfAdded, bfRestored, memo, initFailed, probe>>

InitQueries == InitMemo /\ InitIdle /\ probe = <<>>

QueryUrlsCalled ==
  \E urls \in QueryBatches :
    /\ events < MaxCalls
    /\ events' = events + 1
    /\ qm' = queryUrls(qm, urls)
    /\ UNCHANGED <<faults, qmOnly>>

\* chrome.runtime.sendMessage answers, or fails
MessageAnswered ==
  \E i \in DOMAIN qm.loops, ok \in BOOLEAN :
    /\ qm.loops[i].pc = "sendMessage"
    /\ ok \/ faults < MaxFailures
    /\ faults' = IF ok THEN faults ELSE faults + 1
    /\ qm' = afterSendQuery(qm, i, ok)
    /\ UNCHANGED <<events, qmOnly>>

\* the delay between two batches has passed
DelayElapsed ==
  \E i \in DOMAIN qm.loops :
    /\ qm.loops[i].pc = "delay"
    /\ qm' = nextBatch(qm, i)
    /\ UNCHANGED <<events, faults, qmOnly>>

\* clearQueue()
ClearQueue ==
  /\ events < MaxCalls
  /\ events' = events + 1
  /\ qm' = [qm EXCEPT !.queryQueue = <<>>]
  /\ UNCHANGED <<faults, qmOnly>>

NextQueries == QueryUrlsCalled \/ MessageAnswered \/ DelayElapsed \/ ClearQueue

SpecQueries == InitQueries /\ [][NextQueries]_vars

\* at most one loop, one exactly when isQuerying is true, its batch of at most BATCH_SIZE
\* URLs, and an empty queue whenever no loop is in flight
OneLoop ==
  /\ Len(qm.loops) <= 1
  /\ qm.isQuerying <=> Len(qm.loops) = 1
  /\ \A i \in DOMAIN qm.loops : Len(qm.loops[i].batch) <= BATCH_SIZE
  /\ ~qm.isQuerying => qm.queryQueue = <<>>

\* the step of a failed message puts the batch back at the end of the queue and keeps
\* the loop running
Requeued ==
  faults' # faults =>
    /\ qm'.queryQueue = qm.queryQueue \o qm.loops[1].batch
    /\ qm.loops[1].batch # <<>>
    /\ qm'.isQuerying
    /\ Len(qm'.loops) = 1

\* C40: at most one processQueue loop is in flight, and one is exactly when isQuerying
\* is true; its batch holds at most BATCH_SIZE URLs; with no loop in flight the queue
\* is empty, so URLs enqueued during a batch are taken by the running loop; and a
\* batch whose message failed is put back on the queue, never dropped
OneLoopNothingStranded == []OneLoop /\ [][Requeued]_vars

\* after a failed batch was put back, URLs enqueued while the next batch is in flight wait
\* in the queue of the running loop
EnqueuedWhileInFlight ==
  /\ Len(qm.loops) = 1
  /\ qm.loops[1].pc = "sendMessage"
  /\ Len(qm.loops[1].batch) = BATCH_SIZE
  /\ events = 2
  /\ faults = 1
  /\ Len(qm.queryQueue) > BATCH_SIZE

============================================================================
